---------------------------- MODULE Spec2Model ----------------------------
(***************************************************************************)
(* A model of kicad-component-importer: the S-expression node model, the   *)
(* parser and the pretty printer of kicad_sym.rs, the Symbol and           *)
(* KicadSymbolLib views built on them, and the footprint association of    *)
(* importer.rs.                                                            *)
(*                                                                         *)
(* Text is a sequence of one-character strings.  A Rust Option<T> is the   *)
(* record [some, v]; a Rust Result is a record with an ok field.           *)
(***************************************************************************)
EXTENDS Integers, Sequences, FiniteSets, TLC

VARIABLES
    node,      \* printer: the Sexp handed to to_string_pretty
    text,      \* printer: the String it returned
    reparsed,  \* printer: the result of Parser::parse_all on that text
    pstep,     \* printer: "tree" -> "printed" -> "parsed"
    lib,       \* library: the root Sexp of the KicadSymbolLib
    call,      \* library: the last add_symbol call, its result and the root
               \* before it; n counts the calls made
    asyms,     \* association: the Vec<Symbol> parsed from the symbol files
    fps,       \* association: the names of the discovered footprints, in order
    fpLibFile, \* association: the file name of config.footprint_lib()
    assoc,     \* association: the Result of the stage
    astep,     \* association: "parsed" -> "done"
    source,    \* import: the source path: whether it is a directory or zip,
               \* and the symbol, footprint and 3D-model files under it
    args,      \* import: the AddPolicy and config.footprint_lib()
    disk,      \* import: the file at config.symbol_lib() and the names in
               \* the footprint library and 3D-model directories
    libBefore, \* import: the file at config.symbol_lib() before the import
    stage,     \* import: the position of import_source
    frame,     \* import: the locals of import_source
    effects,   \* import: the add_symbol calls, writes and copies made so far
    result,    \* import: the Result import_source returns
    tables,    \* tables: the files sym-lib-table and fp-lib-table of the
               \* project root, each an Option of its contents
    tconfig,   \* tables: the project root and the two library paths
    truns,     \* tables: the ensure_project_tables calls made: the files
               \* before and after, the failing file operation and the
               \* outcome for each table
    psym,      \* properties: a Symbol
    pcall,     \* properties: the last call on it, its arguments, the
               \* symbol before it and the bool it returned; n counts the
               \* calls made
    ptext,     \* parser: the input handed to Parser::new
    presult,   \* parser: the Result of parse_all on it, once it has run
    ltext,     \* library file: the text handed to KicadSymbolLib::parse
    lopen,     \* library file: "unparsed", then "open" (lib holds the root
               \* parse returned) or "failed"; "open" from the start for a
               \* library that was not read from a text
    listed,    \* library file: the Result of symbols(), while the last call
               \* on the library is that one
    cliArgs,   \* command line: the three optional paths of ImportArgs
    cwdFiles,  \* command line: what the current directory holds: the file
               \* .kci_config and the project name its .kicad_pro files give
    plan       \* command line: the Result of resolve_import


(***************************************************************************)
(* Bounds of the model.                                                    *)
(***************************************************************************)
MaxNodes == 5      \* nodes (atoms and lists) of a generated tree
MaxAtomLen == 2    \* characters of a generated atom value
MaxLibChildren == 2  \* children after the root keyword of an initial library
MaxCalls == 2      \* add_symbol calls on one library
MaxValueLen == 3   \* characters of a Footprint property value
MaxFootprints == 2 \* discovered footprint files
MaxSymbols == 2    \* symbols of one import
MaxSymbolFiles == 2  \* symbol files of an import source
MaxStepFiles == 1  \* 3D-model files of an import source
MaxTableChildren == 2  \* children after the root keyword of an existing table
MaxTableRuns == 2  \* ensure_project_tables calls in one project
MaxPropCalls == 1  \* property calls on one symbol
MaxTextLen == 4    \* characters of a text handed to the parser

-----------------------------------------------------------------------------
(***************************************************************************)
(* Option and text helpers.                                                *)
(***************************************************************************)
None == [some |-> FALSE, v |-> <<>>]
Some(x) == [some |-> TRUE, v |-> x]

\* The element of a one-element set.  { e : x \in {v} } computes v once and
\* names it x in e, as a Rust let binding does.
Only(S) == CHOOSE x \in S : TRUE

\* The least index of a set of indices, or 0 for the empty set: the first
\* element a loop over a Vec finds.
FirstOf(S) == IF S = {} THEN 0 ELSE CHOOSE i \in S : \A j \in S : i <= j

\* The sequences of length at most n over the set S.
RECURSIVE SeqsUpTo(_, _)
SeqsUpTo(S, n) ==
    IF n = 0 THEN {<<>>}
    ELSE LET shorter == SeqsUpTo(S, n - 1)
         IN  shorter \cup {Append(q, x) : q \in shorter, x \in S}

-----------------------------------------------------------------------------
(***************************************************************************)
(* kicad_sym.rs: Atom and Sexp.                                            *)
(***************************************************************************)
Atom(v, q) == [atom |-> TRUE, value |-> v, quoted |-> q, items |-> <<>>]
Atom_new(v) == Atom(v, FALSE)
Atom_new_quoted(v) == Atom(v, TRUE)
List(xs) == [atom |-> FALSE, value |-> <<>>, quoted |-> FALSE, items |-> xs]

\* char::is_whitespace, on the characters the model uses.
is_whitespace(ch) == ch \in {" ", "\n", "\t", "\r"}

\* The characters that end a bare atom and that force quotes on output.
is_delimiter(ch) == is_whitespace(ch) \/ ch \in {"(", ")", "\"", ";", "#"}

\* needs_quotes with the whitespace test left out.
needs_quotes_no_whitespace(value) ==
    value = <<>> \/ \E i \in 1..Len(value) : value[i] \in {"(", ")", "\"", ";", "#"}

needs_quotes(value) ==
    value = <<>> \/ \E i \in 1..Len(value) : is_delimiter(value[i])

\* escape_char with the arm for the backslash left out.
escape_char_no_backslash(ch) ==
    CASE ch = "\"" -> <<"\\", "\"">>
      [] ch = "\n" -> <<"\\", "n">>
      [] ch = "\r" -> <<"\\", "r">>
      [] ch = "\t" -> <<"\\", "t">>
      [] OTHER -> <<ch>>

escape_char(ch) ==
    CASE ch = "\\" -> <<"\\", "\\">>
      [] ch = "\"" -> <<"\\", "\"">>
      [] ch = "\n" -> <<"\\", "n">>
      [] ch = "\r" -> <<"\\", "r">>
      [] ch = "\t" -> <<"\\", "t">>
      [] OTHER -> <<ch>>

RECURSIVE escape_atom(_)
escape_atom(value) ==
    IF value = <<>> THEN <<>>
    ELSE escape_char(Head(value)) \o escape_atom(Tail(value))

render_atom(a) ==
    IF a.quoted \/ needs_quotes(a.value)
    THEN <<"\"">> \o escape_atom(a.value) \o <<"\"">>
    ELSE a.value

\* The indent string to_string_pretty passes on.
indent_str == <<"\t">>

RECURSIVE Indent(_, _)
Indent(n, unit) == IF n = 0 THEN <<>> ELSE unit \o Indent(n - 1, unit)

RECURSIVE write_pretty(_, _, _), write_one_line(_, _, _, _),
          write_multi_line(_, _, _, _)
\* The text write_pretty appends to out for the Sexp n at the given indent.
write_pretty(n, indent, unit) ==
    IF n.atom THEN render_atom(n)
    ELSE IF n.items = <<>> THEN <<"(", ")">>
    ELSE IF \A i \in 1..Len(n.items) : n.items[i].atom
    THEN <<"(">> \o write_one_line(n.items, 1, indent, unit) \o <<")">>
    ELSE <<"(">> \o write_pretty(n.items[1], indent, unit)
                 \o write_multi_line(n.items, 2, indent, unit)
                 \o <<"\n">> \o Indent(indent, unit) \o <<")">>

\* The loop over an all-atom list: items i.. separated by single spaces.
write_one_line(items, i, indent, unit) ==
    IF i > Len(items) THEN <<>>
    ELSE (IF i > 1 THEN <<" ">> ELSE <<>>)
         \o write_pretty(items[i], indent, unit)
         \o write_one_line(items, i + 1, indent, unit)

\* The loop over items[1..]: each on its own line, one level deeper.
write_multi_line(items, i, indent, unit) ==
    IF i > Len(items) THEN <<>>
    ELSE <<"\n">> \o Indent(indent + 1, unit)
         \o write_pretty(items[i], indent + 1, unit)
         \o write_multi_line(items, i + 1, indent, unit)

to_string_pretty_with_indent(n, unit) == write_pretty(n, 0, unit) \o <<"\n">>

to_string_pretty(n) == to_string_pretty_with_indent(n, indent_str)

-----------------------------------------------------------------------------
(***************************************************************************)
(* kicad_sym.rs: Parser.  pos is the 1-based index of the next character;  *)
(* the end of input is pos > Len(chars).                                   *)
(***************************************************************************)
POk(n, pos) == [ok |-> TRUE, node |-> n, pos |-> pos, msg |-> ""]
PErr(msg, pos) == [ok |-> FALSE, node |-> List(<<>>), pos |-> pos, msg |-> msg]

RECURSIVE skip_whitespace(_, _)
skip_whitespace(chars, pos) ==
    IF pos <= Len(chars) /\ is_whitespace(chars[pos])
    THEN skip_whitespace(chars, pos + 1)
    ELSE pos

RECURSIVE consume_comment(_, _)
consume_comment(chars, pos) ==
    IF pos > Len(chars) THEN pos
    ELSE IF chars[pos] = "\n" THEN pos + 1
    ELSE consume_comment(chars, pos + 1)

RECURSIVE skip_ws_and_comments(_, _)
skip_ws_and_comments(chars, pos) ==
    LET p == skip_whitespace(chars, pos)
    IN  IF p <= Len(chars) /\ chars[p] \in {";", "#"}
        THEN skip_ws_and_comments(chars, consume_comment(chars, p))
        ELSE p

\* The index after the maximal run of bare-atom characters that starts at pos.
RECURSIVE bare_end(_, _)
bare_end(chars, pos) ==
    IF pos <= Len(chars) /\ ~is_delimiter(chars[pos])
    THEN bare_end(chars, pos + 1)
    ELSE pos

parse_bare_atom(chars, pos) ==
    LET e == bare_end(chars, pos)
        value == SubSeq(chars, pos, e - 1)
    IN  IF value = <<>> THEN PErr("expected atom", e)
        ELSE POk(Atom_new(value), e)

unescape_char(esc) ==
    CASE esc = "n" -> "\n"
      [] esc = "r" -> "\r"
      [] esc = "t" -> "\t"
      [] OTHER -> esc

\* The loop of parse_quoted_atom, after the opening quote.
RECURSIVE quoted_loop(_, _, _)
quoted_loop(chars, pos, value) ==
    IF pos > Len(chars) THEN PErr("unterminated string", pos)
    ELSE IF chars[pos] = "\"" THEN POk(Atom_new_quoted(value), pos + 1)
    ELSE IF chars[pos] = "\\"
    THEN IF pos + 1 > Len(chars) THEN PErr("unterminated escape", pos + 1)
         ELSE quoted_loop(chars, pos + 2,
                          Append(value, unescape_char(chars[pos + 1])))
    ELSE quoted_loop(chars, pos + 1, Append(value, chars[pos]))

parse_quoted_atom(chars, pos) ==
    IF pos <= Len(chars) /\ chars[pos] = "\""
    THEN quoted_loop(chars, pos + 1, <<>>)
    ELSE PErr("expected '\"'", pos)

RECURSIVE parse_sexp(_, _), list_loop(_, _, _)
parse_sexp(chars, pos0) ==
    Only({ IF pos > Len(chars) THEN PErr("unexpected end of input", pos)
           ELSE IF chars[pos] = "(" THEN list_loop(chars, pos + 1, <<>>)
           ELSE IF chars[pos] = "\"" THEN parse_quoted_atom(chars, pos)
           ELSE IF chars[pos] = ")" THEN PErr("unexpected ')'", pos)
           ELSE parse_bare_atom(chars, pos)
           : pos \in {skip_ws_and_comments(chars, pos0)} })

\* The loop of parse_list, after the opening parenthesis.
list_loop(chars, pos0, items) ==
    Only({ IF pos > Len(chars) THEN PErr("unterminated list", pos)
           ELSE IF chars[pos] = ")" THEN POk(List(items), pos + 1)
           ELSE Only({ IF r.ok
                       THEN list_loop(chars, r.pos, Append(items, r.node))
                       ELSE r
                       : r \in {parse_sexp(chars, pos)} })
           : pos \in {skip_ws_and_comments(chars, pos0)} })

parse_list(chars, pos) ==
    IF pos <= Len(chars) /\ chars[pos] = "("
    THEN list_loop(chars, pos + 1, <<>>)
    ELSE PErr("expected '('", pos)

AOk(items) == [ok |-> TRUE, items |-> items, pos |-> 0, msg |-> ""]
AErr(msg, pos) == [ok |-> FALSE, items |-> <<>>, pos |-> pos, msg |-> msg]

RECURSIVE all_loop(_, _, _)
all_loop(chars, pos0, items) ==
    Only({ IF pos > Len(chars) THEN AOk(items)
           ELSE Only({ IF r.ok
                       THEN all_loop(chars, r.pos, Append(items, r.node))
                       ELSE AErr(r.msg, r.pos)
                       : r \in {parse_sexp(chars, pos)} })
           : pos \in {skip_ws_and_comments(chars, pos0)} })

\* A parser that returns the empty list where parse_all returns an error.
parse_all_swallows_errors(chars) ==
    LET r == all_loop(chars, 1, <<>>)
    IN  IF r.ok THEN r ELSE AOk(<<>>)

parse_all(chars) == all_loop(chars, 1, <<>>)

\* Parser::next keeps line and column beside pos: the values they have once
\* the characters before index pos are consumed, starting from index i with
\* the given line and column.
RECURSIVE next_to(_, _, _, _, _)
next_to(chars, i, pos, line, column) ==
    IF i >= pos \/ i > Len(chars) THEN [line |-> line, column |-> column]
    ELSE IF chars[i] = "\n" THEN next_to(chars, i + 1, pos, line + 1, 1)
    ELSE next_to(chars, i + 1, pos, line, column + 1)

\* KicadSymError::with_pos, as Parser::error builds it at position pos.
Parser_error(chars, message, pos) ==
    LET at == next_to(chars, 1, pos, 1, 1)
    IN  [message |-> message, line |-> Some(at.line),
         column |-> Some(at.column)]

\* parse_sexps: the Result<Vec<Sexp>, KicadSymError> of a whole input.
parse_sexps(chars) ==
    Only({ IF r.ok THEN [ok |-> TRUE, items |-> r.items,
                         err |-> [message |-> "", line |-> Some(0),
                                  column |-> Some(0)]]
           ELSE [ok |-> FALSE, items |-> <<>>,
                 err |-> Parser_error(chars, r.msg, r.pos)]
           : r \in {parse_all(chars)} })

parse_one(chars) ==
    Only({ IF ~r.ok THEN r
           ELSE IF Len(r.items) # 1
           THEN AErr("expected a single top-level S-expression", 0)
           ELSE r
           : r \in {parse_all(chars)} })

-----------------------------------------------------------------------------
(***************************************************************************)
(* kicad_sym.rs: the shape checks over the generic tree.                   *)
(***************************************************************************)
KwSymbol == <<"s", "y", "m", "b", "o", "l">>
KwProperty == <<"p", "r", "o", "p", "e", "r", "t", "y">>
KwRoot == <<"k", "i", "c", "a", "d", "_", "s", "y", "m", "b", "o", "l", "_",
            "l", "i", "b">>
KwVersion == <<"v", "e", "r", "s", "i", "o", "n">>
KeyFootprint == <<"F", "o", "o", "t", "p", "r", "i", "n", "t">>

atom_value(sexp) == IF sexp.atom THEN Some(sexp.value) ELSE None

\* symbol_name without the test of the leading keyword.
symbol_name_any_head(sexp) ==
    IF sexp.atom THEN None
    ELSE IF Len(sexp.items) < 2 THEN None
    ELSE atom_value(sexp.items[2])

symbol_name(sexp) ==
    IF sexp.atom THEN None
    ELSE IF Len(sexp.items) < 2 THEN None
    ELSE IF atom_value(sexp.items[1]) # Some(KwSymbol) THEN None
    ELSE atom_value(sexp.items[2])

property_value(sexp, name) ==
    IF sexp.atom THEN None
    ELSE IF Len(sexp.items) < 3 THEN None
    ELSE IF atom_value(sexp.items[1]) # Some(KwProperty) THEN None
    ELSE IF atom_value(sexp.items[2]) # Some(name) THEN None
    ELSE atom_value(sexp.items[3])

is_property_list(items) ==
    IF items = <<>> THEN FALSE
    ELSE atom_value(items[1]) = Some(KwProperty)

\* TRUE when property_items_mut returns Some(items) for this child.
property_items_mut(sexp, name) ==
    IF sexp.atom THEN FALSE
    ELSE IF Len(sexp.items) < 3 THEN FALSE
    ELSE IF ~is_property_list(sexp.items) THEN FALSE
    ELSE IF atom_value(sexp.items[2]) # Some(name) THEN FALSE
    ELSE TRUE

ROk == [ok |-> TRUE, msg |-> "", name |-> <<>>]
RErr(msg) == [ok |-> FALSE, msg |-> msg, name |-> <<>>]
RErrNamed(msg, name) == [ok |-> FALSE, msg |-> msg, name |-> name]

root_items(sexp) ==
    IF sexp.atom THEN RErr("library root must be a list expression") ELSE ROk

ensure_root(sexp) ==
    IF ~root_items(sexp).ok THEN root_items(sexp)
    ELSE IF sexp.items = <<>> THEN RErr("library root list is empty")
    ELSE IF atom_value(sexp.items[1]) = Some(KwRoot) THEN ROk
    ELSE RErr("expected root list to start with kicad_symbol_lib")

(***************************************************************************)
(* kicad_sym.rs: Symbol, the record [name, sexp].                          *)
(***************************************************************************)
Symbol_from_sexp(sexp) ==
    IF symbol_name(sexp).some
    THEN [ok |-> TRUE, sym |-> [name |-> symbol_name(sexp).v, sexp |-> sexp]]
    ELSE [ok |-> FALSE, sym |-> [name |-> <<>>, sexp |-> sexp]]

Symbol_name(sym) == sym.name

Symbol_property_value(sym, name) ==
    IF sym.sexp.atom THEN None
    ELSE LET i == FirstOf({k \in 1..Len(sym.sexp.items) :
                              property_value(sym.sexp.items[k], name).some})
         IN  IF i = 0 THEN None ELSE property_value(sym.sexp.items[i], name)

\* [found, sym]: the bool set_property_value returns and the symbol after it.
Symbol_set_property_value(sym, name, value) ==
    IF sym.sexp.atom THEN [found |-> FALSE, sym |-> sym]
    ELSE LET i == FirstOf({k \in 1..Len(sym.sexp.items) :
                              /\ property_items_mut(sym.sexp.items[k], name)
                              /\ Len(sym.sexp.items[k].items) >= 3})
         IN  IF i = 0 THEN [found |-> FALSE, sym |-> sym]
             ELSE LET entry == sym.sexp.items[i]
                      items == [entry.items EXCEPT ![3] = Atom_new(value)]
                  IN  [found |-> TRUE,
                       sym |-> [sym EXCEPT !.sexp.items[i] = List(items)]]

\* set_or_add_property that clones the template without renaming it.
Symbol_set_or_add_property_keeps_name(sym, name, value) ==
    LET set == Symbol_set_property_value(sym, name, value)
        list == sym.sexp.items
        t == FirstOf({k \in 1..Len(list) :
                         ~list[k].atom /\ is_property_list(list[k].items)})
    IN  IF set.found THEN set.sym
        ELSE IF t # 0
        THEN [sym EXCEPT !.sexp.items =
                 Append(list, List(IF Len(list[t].items) >= 3
                                   THEN [list[t].items EXCEPT ![3] = Atom_new(value)]
                                   ELSE Append(list[t].items, Atom_new(value))))]
        ELSE [sym EXCEPT !.sexp.items =
                 Append(list, List(<<Atom_new(KwProperty), Atom_new_quoted(name),
                                     Atom_new(value)>>))]

\* set_or_add_property that never copies a template: a new entry is always
\* the three-element list.
Symbol_set_or_add_property_no_template(sym, name, value) ==
    LET set == Symbol_set_property_value(sym, name, value)
    IN  IF set.found THEN set.sym
        ELSE IF sym.sexp.atom THEN sym
        ELSE [sym EXCEPT !.sexp.items =
                 Append(sym.sexp.items, List(<<Atom_new(KwProperty),
                                               Atom_new_quoted(name),
                                               Atom_new(value)>>))]

\* The symbol after set_or_add_property.
Symbol_set_or_add_property(sym, name, value) ==
    LET set == Symbol_set_property_value(sym, name, value)
    IN  IF set.found THEN set.sym
        ELSE IF sym.sexp.atom THEN sym
        ELSE LET list == sym.sexp.items
                 t == FirstOf({k \in 1..Len(list) :
                                  ~list[k].atom /\ is_property_list(list[k].items)})
             IN  IF t # 0
                 THEN LET template == list[t].items
                          withName ==
                              IF Len(template) >= 2
                              THEN [template EXCEPT ![2] = Atom_new_quoted(name)]
                              ELSE Append(template, Atom_new_quoted(name))
                          withValue ==
                              IF Len(withName) >= 3
                              THEN [withName EXCEPT ![3] = Atom_new(value)]
                              ELSE Append(withName, Atom_new(value))
                      IN  [sym EXCEPT !.sexp.items = Append(list, List(withValue))]
                 ELSE [sym EXCEPT !.sexp.items =
                          Append(list, List(<<Atom_new(KwProperty),
                                              Atom_new_quoted(name),
                                              Atom_new(value)>>))]

Symbol_into_sexp(sym) == sym.sexp

(***************************************************************************)
(* kicad_sym.rs: KicadSymbolLib, the root Sexp.                            *)
(***************************************************************************)
ErrorOnConflict == "ErrorOnConflict"
ReplaceExisting == "ReplaceExisting"
SkipExisting == "SkipExisting"
AddPolicy == {ErrorOnConflict, ReplaceExisting, SkipExisting}

\* [ok, root, msg]
\* A parse that takes the first of several top-level forms.
KicadSymbolLib_parse_first_form(input) ==
    Only({ IF ~r.ok THEN [ok |-> FALSE, root |-> List(<<>>), msg |-> r.msg]
           ELSE IF Len(r.items) < 1
           THEN [ok |-> FALSE, root |-> List(<<>>),
                 msg |-> "expected a single top-level S-expression for library"]
           ELSE IF ~ensure_root(r.items[1]).ok
           THEN [ok |-> FALSE, root |-> List(<<>>),
                 msg |-> ensure_root(r.items[1]).msg]
           ELSE [ok |-> TRUE, root |-> r.items[1], msg |-> ""]
           : r \in {parse_all(input)} })

KicadSymbolLib_parse(input) ==
    Only({ IF ~r.ok THEN [ok |-> FALSE, root |-> List(<<>>), msg |-> r.msg]
           ELSE IF Len(r.items) # 1
           THEN [ok |-> FALSE, root |-> List(<<>>),
                 msg |-> "expected a single top-level S-expression for library"]
           ELSE IF ~ensure_root(r.items[1]).ok
           THEN [ok |-> FALSE, root |-> List(<<>>),
                 msg |-> ensure_root(r.items[1]).msg]
           ELSE [ok |-> TRUE, root |-> r.items[1], msg |-> ""]
           : r \in {parse_all(input)} })

\* The Vec<Symbol> of symbols(), for a root that is a list.
RECURSIVE symbols_from(_, _)
symbols_from(items, i) ==
    IF i > Len(items) THEN <<>>
    ELSE IF symbol_name(items[i]).some
    THEN <<Symbol_from_sexp(items[i]).sym>> \o symbols_from(items, i + 1)
    ELSE symbols_from(items, i + 1)

KicadSymbolLib_symbols(root) ==
    IF ~root_items(root).ok THEN [ok |-> FALSE, syms |-> <<>>]
    ELSE [ok |-> TRUE, syms |-> symbols_from(root.items, 2)]

\* find_existing that keeps the last match instead of stopping at the first.
find_existing_last(items, name) ==
    LET found == {i \in 2..Len(items) : symbol_name(items[i]) = Some(name)}
    IN  IF found = {} THEN 0 ELSE CHOOSE i \in found : \A j \in found : i >= j

\* The loop of add_symbol: the index of the first child after the root
\* keyword that is a symbol of this name, or 0 (None).
find_existing(items, name) ==
    FirstOf({i \in 2..Len(items) : symbol_name(items[i]) = Some(name)})

\* match_arm where SkipExisting on an existing symbol overwrites it.
match_arm_skip_replaces(existing, policy) ==
    IF existing # 0 /\ policy = ErrorOnConflict THEN "conflict"
    ELSE IF existing # 0 THEN "replace"
    ELSE "push"

\* match_arm where ErrorOnConflict on an existing symbol is not detected.
match_arm_no_conflict(existing, policy) ==
    IF existing # 0 /\ policy = SkipExisting THEN "skip"
    ELSE IF existing # 0 /\ policy = ReplaceExisting THEN "replace"
    ELSE "push"

\* match_arm where a new symbol is not appended under SkipExisting.
match_arm_skip_never_adds(existing, policy) ==
    IF policy = SkipExisting THEN "skip"
    ELSE IF existing # 0 /\ policy = ErrorOnConflict THEN "conflict"
    ELSE IF existing # 0 THEN "replace"
    ELSE "push"

\* match_arm where ReplaceExisting on an existing symbol appends the new one.
match_arm_replace_appends(existing, policy) ==
    IF existing # 0 /\ policy = SkipExisting THEN "skip"
    ELSE IF existing # 0 /\ policy = ErrorOnConflict THEN "conflict"
    ELSE "push"

\* The arm of match (existing, policy) that add_symbol takes.
match_arm(existing, policy) ==
    IF existing # 0 /\ policy = SkipExisting THEN "skip"
    ELSE IF existing # 0 /\ policy = ErrorOnConflict THEN "conflict"
    ELSE IF existing # 0 /\ policy = ReplaceExisting THEN "replace"
    ELSE "push"

\* [res, root]: the Result add_symbol returns and the root after the call.
KicadSymbolLib_add_symbol(root, symbol, policy) ==
    IF ~ensure_root(root).ok THEN [res |-> ensure_root(root), root |-> root]
    ELSE LET items == root.items
             name == Symbol_name(symbol)
             existing == find_existing(items, name)
             arm == match_arm(existing, policy)
         IN  CASE arm = "skip" -> [res |-> ROk, root |-> root]
               [] arm = "conflict" ->
                      [res |-> RErrNamed("symbol already exists", name),
                       root |-> root]
               [] arm = "replace" ->
                      [res |-> ROk,
                       root |-> List([items EXCEPT
                                         ![existing] = Symbol_into_sexp(symbol)])]
               [] arm = "push" ->
                      [res |-> ROk,
                       root |-> List(Append(items, Symbol_into_sexp(symbol)))]

KicadSymbolLib_to_string_pretty(root) == to_string_pretty(root)

-----------------------------------------------------------------------------
(***************************************************************************)
(* importer.rs: footprint association.                                     *)
(***************************************************************************)
\* str::trim: the text without its leading and trailing whitespace.
RECURSIVE trim_start(_), trim_end(_)
trim_start(s) ==
    IF s # <<>> /\ is_whitespace(Head(s)) THEN trim_start(Tail(s)) ELSE s

trim_end(s) ==
    IF s # <<>> /\ is_whitespace(s[Len(s)])
    THEN trim_end(SubSeq(s, 1, Len(s) - 1))
    ELSE s

trim(s) == trim_end(trim_start(s))

\* str::rsplit_once(':'): the text after the last colon, None without one.
rsplit_once_colon(value) ==
    LET colons == {i \in 1..Len(value) : value[i] = ":"}
    IN  IF colons = {} THEN None
        ELSE LET last == CHOOSE i \in colons : \A j \in colons : i >= j
             IN  Some(SubSeq(value, last + 1, Len(value)))

footprint_name_from_value(value) ==
    IF value = <<>> THEN None
    ELSE IF rsplit_once_colon(value).some THEN rsplit_once_colon(value)
    ELSE Some(value)

\* The keys of the HashMap associate_footprints builds.
footprints_by_name(footprints) == {footprints[i] : i \in 1..Len(footprints)}

SelOk(name) == [ok |-> TRUE, name |-> name, err |-> ""]
SelErr(name) == [ok |-> FALSE, name |-> name, err |-> "Association"]

\* The first block of select_footprint_for_symbol: Some(name) when the
\* symbol's Footprint property names a discovered footprint.
declared_footprint(symbol, by_name) ==
    LET value == Symbol_property_value(symbol, KeyFootprint)
    IN  IF ~value.some THEN None
        ELSE LET trimmed == trim(value.v)
             IN  IF trimmed = <<>> THEN None
                 ELSE LET name == footprint_name_from_value(trimmed)
                      IN  IF name.some /\ name.v \in by_name THEN name
                          ELSE None

\* select_footprint_for_symbol without the single-footprint block.
select_footprint_no_single(symbol, by_name, footprint_count) ==
    IF declared_footprint(symbol, by_name).some
    THEN SelOk(declared_footprint(symbol, by_name).v)
    ELSE IF Symbol_name(symbol) \in by_name THEN SelOk(Symbol_name(symbol))
    ELSE SelErr(Symbol_name(symbol))

\* select_footprint_for_symbol that tries the symbol's name before the
\* declared property.
select_footprint_name_first(symbol, by_name, footprint_count) ==
    IF Symbol_name(symbol) \in by_name THEN SelOk(Symbol_name(symbol))
    ELSE IF declared_footprint(symbol, by_name).some
    THEN SelOk(declared_footprint(symbol, by_name).v)
    ELSE IF footprint_count = 1 /\ by_name # {}
    THEN SelOk(CHOOSE n \in by_name : TRUE)
    ELSE SelErr(Symbol_name(symbol))

\* select_footprint_for_symbol that falls back to some discovered footprint
\* instead of failing.
select_footprint_guess(symbol, by_name, footprint_count) ==
    IF declared_footprint(symbol, by_name).some
    THEN SelOk(declared_footprint(symbol, by_name).v)
    ELSE IF footprint_count = 1 /\ by_name # {}
    THEN SelOk(CHOOSE n \in by_name : TRUE)
    ELSE IF Symbol_name(symbol) \in by_name THEN SelOk(Symbol_name(symbol))
    ELSE IF by_name # {} THEN SelOk(CHOOSE n \in by_name : TRUE)
    ELSE SelErr(Symbol_name(symbol))

\* select_footprint_for_symbol without the name-match block.
select_footprint_no_name_match(symbol, by_name, footprint_count) ==
    IF declared_footprint(symbol, by_name).some
    THEN SelOk(declared_footprint(symbol, by_name).v)
    ELSE IF footprint_count = 1 /\ by_name # {}
    THEN SelOk(CHOOSE n \in by_name : TRUE)
    ELSE SelErr(Symbol_name(symbol))

\* select_footprint_for_symbol that falls back to the symbol's own name
\* whether or not a footprint of that name was discovered.
select_footprint_own_name(symbol, by_name, footprint_count) ==
    IF declared_footprint(symbol, by_name).some
    THEN SelOk(declared_footprint(symbol, by_name).v)
    ELSE IF footprint_count = 1 /\ by_name # {}
    THEN SelOk(CHOOSE n \in by_name : TRUE)
    ELSE SelOk(Symbol_name(symbol))

select_footprint_for_symbol(symbol, by_name, footprint_count) ==
    IF declared_footprint(symbol, by_name).some
    THEN SelOk(declared_footprint(symbol, by_name).v)
    ELSE IF footprint_count = 1 /\ by_name # {}
    THEN SelOk(CHOOSE n \in by_name : TRUE)
    ELSE IF Symbol_name(symbol) \in by_name THEN SelOk(Symbol_name(symbol))
    ELSE SelErr(Symbol_name(symbol))

\* [ok, out, err, name]: Ok(out), or the error and the symbol it names.
RECURSIVE associate_loop(_, _, _, _, _)
associate_loop(symbols, i, footprints, footprint_lib_name, out) ==
    IF i > Len(symbols) THEN [ok |-> TRUE, out |-> out, err |-> "", name |-> <<>>]
    ELSE LET sel == select_footprint_for_symbol(
                        symbols[i], footprints_by_name(footprints), Len(footprints))
         IN  IF ~sel.ok
             THEN [ok |-> FALSE, out |-> <<>>, err |-> sel.err, name |-> sel.name]
             ELSE LET value == footprint_lib_name \o <<":">> \o sel.name
                      symbol == Symbol_set_or_add_property(
                                    symbols[i], KeyFootprint, value)
                  IN  associate_loop(symbols, i + 1, footprints,
                                     footprint_lib_name, Append(out, symbol))

associate_footprints(symbols, footprints, footprint_lib_name) ==
    associate_loop(symbols, 1, footprints, footprint_lib_name, <<>>)

DotPretty == <<".", "p", "r", "e", "t", "t", "y">>

\* str::strip_suffix(".pretty")
strip_suffix_pretty(name) ==
    IF Len(name) >= Len(DotPretty)
       /\ SubSeq(name, Len(name) - Len(DotPretty) + 1, Len(name)) = DotPretty
    THEN Some(SubSeq(name, 1, Len(name) - Len(DotPretty)))
    ELSE None

\* footprint_lib_name on a path whose file name is name.
footprint_lib_name(name) ==
    LET stripped == strip_suffix_pretty(name)
    IN  IF stripped.some
        THEN IF stripped.v = <<>>
             THEN [ok |-> FALSE, v |-> <<>>, err |-> "InvalidSource"]
             ELSE [ok |-> TRUE, v |-> stripped.v, err |-> ""]
        ELSE [ok |-> TRUE, v |-> name, err |-> ""]


\* The text load_or_create_symbol_lib parses when the library file is absent.
DefaultLibText ==
    <<"(">> \o KwRoot \o <<" ", "(">> \o KwVersion
        \o <<" ", "2", "0", "2", "3", "1", "1", "2", "0", ")", ")">>

\* [ok, root, err] of load_or_create_symbol_lib; file is the Option of the
\* file's contents and read_ok whether fs::read_to_string succeeds.
load_or_create_symbol_lib(file, read_ok) ==
    IF file.some /\ ~read_ok THEN [ok |-> FALSE, root |-> List(<<>>), err |-> "Io"]
    ELSE Only({ [ok |-> parsed.ok, root |-> parsed.root,
                 err |-> IF parsed.ok THEN "" ELSE "Symbol"]
                : parsed \in {KicadSymbolLib_parse(IF file.some THEN file.v
                                                   ELSE DefaultLibText)} })

\* The loop of import_source over the symbol files, from file i on: [ok,
\* syms], the symbols of every file in order, or the first failure.
RECURSIVE read_symbols(_, _, _)
read_symbols(files, i, out) ==
    IF i > Len(files) THEN [ok |-> TRUE, syms |-> out]
    ELSE Only({ IF ~parsed.ok THEN [ok |-> FALSE, syms |-> <<>>]
                ELSE Only({ IF ~found.ok THEN [ok |-> FALSE, syms |-> <<>>]
                            ELSE read_symbols(files, i + 1, out \o found.syms)
                            : found \in {KicadSymbolLib_symbols(parsed.root)} })
                : parsed \in {KicadSymbolLib_parse(files[i])} })


-----------------------------------------------------------------------------
(***************************************************************************)
(* kicad_table.rs.  A Path is the record [absolute, comps]: whether it has *)
(* a root and its components in order; "." stands only first in a relative *)
(* path, as in std::path.                                                  *)
(***************************************************************************)
\* The characters of the string literals of kicad_table.rs.
TableWord(w) ==
    CASE w = "lib" -> <<"l", "i", "b">>
      [] w = "name" -> <<"n", "a", "m", "e">>
      [] w = "type" -> <<"t", "y", "p", "e">>
      [] w = "uri" -> <<"u", "r", "i">>
      [] w = "options" -> <<"o", "p", "t", "i", "o", "n", "s">>
      [] w = "descr" -> <<"d", "e", "s", "c", "r">>
      [] w = "KiCad" -> <<"K", "i", "C", "a", "d">>
      [] w = "version" -> KwVersion
      [] w = "7" -> <<"7">>
      [] w = "" -> <<>>
      [] w = "${KIPRJMOD}/" ->
             <<"$", "{", "K", "I", "P", "R", "J", "M", "O", "D", "}", "/">>
      [] w = "sym_lib_table" ->
             <<"s", "y", "m", "_", "l", "i", "b", "_", "t", "a", "b", "l", "e">>
      [] w = "fp_lib_table" ->
             <<"f", "p", "_", "l", "i", "b", "_", "t", "a", "b", "l", "e">>

\* TableKind::root_name
root_name(kind) ==
    IF kind = "Symbol" THEN TableWord("sym_lib_table") ELSE TableWord("fp_lib_table")

\* Path::to_string_lossy
RECURSIVE join_components(_)
join_components(comps) ==
    IF comps = <<>> THEN <<>>
    ELSE IF Len(comps) = 1 THEN comps[1]
    ELSE comps[1] \o <<"/">> \o join_components(Tail(comps))

to_string_lossy(path) ==
    (IF path.absolute THEN <<"/">> ELSE <<>>) \o join_components(path.comps)

\* Path::strip_prefix
strip_prefix(path, base) ==
    IF /\ path.absolute = base.absolute
       /\ Len(base.comps) <= Len(path.comps)
       /\ SubSeq(path.comps, 1, Len(base.comps)) = base.comps
    THEN Some([absolute |-> FALSE,
               comps |-> SubSeq(path.comps, Len(base.comps) + 1, Len(path.comps))])
    ELSE None

\* Path::file_name: the last component, unless it is "." or "..".
file_name(path) ==
    IF path.comps = <<>> THEN None
    ELSE LET last == path.comps[Len(path.comps)]
         IN  IF last \in {<<".">>, <<".", ".">>} THEN None ELSE Some(last)

\* Path::file_stem: the file name up to its last ".", or all of it when it
\* has none after its first character.
file_stem(path) ==
    LET name == file_name(path)
        dots == {i \in 2..Len(name.v) : name.v[i] = "."}
    IN  IF ~name.some \/ dots = {} THEN name
        ELSE Some(SubSeq(name.v, 1, (CHOOSE i \in dots : \A j \in dots : i >= j) - 1))

\* lib_name_from_path that keeps a ".pretty" suffix of a footprint library.
lib_name_from_path_keeps_suffix(kind, path) ==
    IF kind = "Symbol"
    THEN [ok |-> file_stem(path).some, v |-> file_stem(path).v]
    ELSE [ok |-> file_name(path).some, v |-> file_name(path).v]

\* [ok, v] of lib_name_from_path; the error is TableError::Invalid.
lib_name_from_path(kind, path) ==
    IF kind = "Symbol"
    THEN [ok |-> file_stem(path).some, v |-> file_stem(path).v]
    ELSE LET name == file_name(path)
         IN  [ok |-> name.some,
              v |-> IF name.some /\ strip_suffix_pretty(name.v).some
                    THEN strip_suffix_pretty(name.v).v
                    ELSE name.v]

\* str::trim_start_matches("./")
RECURSIVE trim_start_matches_dot_slash(_)
trim_start_matches_dot_slash(chars) ==
    IF Len(chars) >= 2 /\ chars[1] = "." /\ chars[2] = "/"
    THEN trim_start_matches_dot_slash(SubSeq(chars, 3, Len(chars)))
    ELSE chars

\* make_uri that embeds every absolute path verbatim.
make_uri_never_strips(path, project_root) ==
    IF path.absolute THEN to_string_lossy(path)
    ELSE TableWord("${KIPRJMOD}/")
             \o trim_start_matches_dot_slash(to_string_lossy(path))

make_uri(path, project_root) ==
    LET relative == IF path.absolute THEN strip_prefix(path, project_root)
                    ELSE Some(path)
    IN  IF relative.some
        THEN TableWord("${KIPRJMOD}/")
                 \o trim_start_matches_dot_slash(to_string_lossy(relative.v))
        ELSE to_string_lossy(path)


\* [ok, table, err] of parse_table
parse_table(input, kind) ==
    Only({ IF ~parsed.ok
           THEN [ok |-> FALSE, table |-> List(<<>>), err |-> "Parse"]
           ELSE LET sexp == parsed.items[1]
                IN  IF sexp.atom \/ sexp.items = <<>>
                       \/ atom_value(sexp.items[1]) # Some(root_name(kind))
                    THEN [ok |-> FALSE, table |-> List(<<>>), err |-> "Invalid"]
                    ELSE [ok |-> TRUE, table |-> sexp, err |-> ""]
           : parsed \in {parse_one(input)} })

TableVersion ==
    List(<<Atom_new(TableWord("version")), Atom_new(TableWord("7"))>>)

default_table(kind) == List(<<Atom_new(root_name(kind)), TableVersion>>)

\* A list of two or more elements whose first is the atom key.
is_field(item, key) ==
    ~item.atom /\ Len(item.items) >= 2 /\ atom_value(item.items[1]) = Some(key)

\* ensure_version on a table that is a list.
ensure_version(table) ==
    IF \E i \in 2..Len(table.items) : is_field(table.items[i], TableWord("version"))
    THEN table
    ELSE List(<<table.items[1]>> \o <<TableVersion>> \o Tail(table.items))

Field(key, value) == List(<<Atom_new(TableWord(key)), Atom_new_quoted(value)>>)

build_lib_entry(name, uri) ==
    List(<<Atom_new(TableWord("lib")), Field("name", name),
           Field("type", TableWord("KiCad")), Field("uri", uri),
           Field("options", <<>>), Field("descr", <<>>)>>)

\* set_child_value on the items of a lib entry: the value of the first
\* field of this key after the head is replaced, or a field is pushed.
set_child_value(items, key, value) ==
    LET at == FirstOf({i \in 2..Len(items) : is_field(items[i], TableWord(key))})
    IN  IF at = 0 THEN Append(items, Field(key, value))
        ELSE [items EXCEPT ![at] =
                 List([items[at].items EXCEPT ![2] = Atom_new_quoted(value)])]

\* update_lib that leaves the type field as it finds it.
update_lib_keeps_type(sexp, name, uri) ==
    List(set_child_value(
             set_child_value(
                 set_child_value(
                     set_child_value(sexp.items, "name", name),
                     "uri", uri),
                 "options", <<>>),
             "descr", <<>>))

\* update_lib on a list.
update_lib(sexp, name, uri) ==
    List(set_child_value(
             set_child_value(
                 set_child_value(
                     set_child_value(
                         set_child_value(sexp.items, "name", name),
                         "type", TableWord("KiCad")),
                     "uri", uri),
                 "options", <<>>),
             "descr", <<>>))

\* [panic, v]: lib_name indexes items[0] without a length check, so it
\* panics on an empty list; otherwise v is the Option it returns.
lib_name(sexp) ==
    IF sexp.atom THEN [panic |-> FALSE, v |-> None]
    ELSE IF sexp.items = <<>> THEN [panic |-> TRUE, v |-> None]
    ELSE IF atom_value(sexp.items[1]) # Some(TableWord("lib"))
    THEN [panic |-> FALSE, v |-> None]
    ELSE LET at == FirstOf({i \in 2..Len(sexp.items) :
                               is_field(sexp.items[i], TableWord("name"))})
         IN  [panic |-> FALSE,
              v |-> IF at = 0 THEN None ELSE atom_value(sexp.items[at].items[2])]

\* ensure_lib_entry that pushes a new entry without looking for one.
ensure_lib_entry_always_appends(table, name, uri) ==
    [panic |-> FALSE, table |-> List(Append(table.items, build_lib_entry(name, uri)))]

\* [panic, table] of ensure_lib_entry on a table that is a list: the loop
\* stops at the first item lib_name panics on or names name.
ensure_lib_entry(table, name, uri) ==
    LET items == table.items
        at == FirstOf({i \in 1..Len(items) :
                          lib_name(items[i]).panic \/ lib_name(items[i]).v = Some(name)})
    IN  IF at = 0
        THEN [panic |-> FALSE, table |-> List(Append(items, build_lib_entry(name, uri)))]
        ELSE IF lib_name(items[at]).panic THEN [panic |-> TRUE, table |-> table]
        ELSE [panic |-> FALSE,
              table |-> List([items EXCEPT ![at] = update_lib(items[at], name, uri)])]

TableIndent == <<" ", " ">>

\* [state, err, file] of ensure_table: state is "ok", "err" or "panic" and
\* file the Option of the table file's contents afterwards.  With io_ok
\* false the first file operation fails: the read of an existing file, or
\* else the write.
ensure_table(file, kind, project_root, lib_path, io_ok) ==
    Only({
      IF ~name.ok THEN [state |-> "err", err |-> "Invalid", file |-> file]
      ELSE IF file.some /\ ~io_ok
      THEN [state |-> "err", err |-> "Io", file |-> file]
      ELSE Only({
        IF ~loaded.ok THEN [state |-> "err", err |-> loaded.err, file |-> file]
        ELSE Only({
          IF entered.panic THEN [state |-> "panic", err |-> "", file |-> file]
          ELSE IF ~io_ok THEN [state |-> "err", err |-> "Io", file |-> file]
          ELSE [state |-> "ok", err |-> "",
                file |-> Some(to_string_pretty_with_indent(entered.table,
                                                           TableIndent))]
          : entered \in {ensure_lib_entry(ensure_version(loaded.table), name.v,
                                          make_uri(lib_path, project_root))} })
        : loaded \in {IF file.some THEN parse_table(file.v, kind)
                      ELSE [ok |-> TRUE, table |-> default_table(kind),
                            err |-> ""]} })
      : name \in {lib_name_from_path(kind, lib_path)} })

-----------------------------------------------------------------------------
(***************************************************************************)
(* cli.rs.  An Option<PathBuf> is [some, v] with v a Path; the file        *)
(* .kci_config is [present, valid, symbol_lib, footprint_lib, step_dir]:   *)
(* whether it is there, whether it reads as a ConfigFile, and the three    *)
(* optional paths of that ConfigFile.                                      *)
(***************************************************************************)
DEFAULT_SYMBOL_LIB ==
    <<"p", "r", "o", "j", "e", "c", "t", "_", "s", "y", "m", "b", "o", "l", "s", ".", "k", "i", "c", "a", "d", "_", "s", "y", "m">>
DEFAULT_FOOTPRINT_LIB ==
    <<"p", "r", "o", "j", "e", "c", "t", "_", "f", "o", "o", "t", "p", "r", "i", "n", "t", "s", ".", "p", "r", "e", "t", "t", "y">>
DEFAULT_STEP_DIR == <<"p", "r", "o", "j", "e", "c", "t", "_", "3", "d">>

NoPath == [some |-> FALSE, v |-> [absolute |-> FALSE, comps |-> <<>>]]
SomePath(p) == [some |-> TRUE, v |-> p]

\* An ImportConfig.
ImportConfig_new(symbol_lib, footprint_lib, step_dir) ==
    [symbol_lib |-> symbol_lib, footprint_lib |-> footprint_lib,
     step_dir |-> step_dir]

\* default_config(cwd), for the Option<String> project_name_from_kicad_pro
\* returns.
default_config(project_name) ==
    IF project_name.some
    THEN ImportConfig_new(
             [absolute |-> FALSE,
              comps |-> <<project_name.v \o <<"_", "s", "y", "m", "b", "o", "l", "s", ".", "k", "i", "c", "a", "d", "_", "s", "y", "m">>>>],
             [absolute |-> FALSE,
              comps |-> <<project_name.v \o <<"_", "f", "o", "o", "t", "p", "r", "i", "n", "t", "s", ".", "p", "r", "e", "t", "t", "y">>>>],
             [absolute |-> FALSE, comps |-> <<project_name.v \o <<"_", "s", "t", "e", "p">>>>])
    ELSE ImportConfig_new([absolute |-> FALSE, comps |-> <<DEFAULT_SYMBOL_LIB>>],
                          [absolute |-> FALSE, comps |-> <<DEFAULT_FOOTPRINT_LIB>>],
                          [absolute |-> FALSE, comps |-> <<DEFAULT_STEP_DIR>>])

\* resolve_path that prefers the value of the config file.
resolve_path_config_first(cli_value, config_value, default) ==
    IF config_value.some THEN config_value.v
    ELSE IF cli_value.some THEN cli_value.v
    ELSE default

resolve_path(cli_value, config_value, default) ==
    IF cli_value.some THEN cli_value.v
    ELSE IF config_value.some THEN config_value.v
    ELSE default

\* ConfigFile::from_import_config, as the file ConfigFile::write leaves.
ConfigFile_from_import_config(config) ==
    [present |-> TRUE, valid |-> TRUE,
     symbol_lib |-> SomePath(config.symbol_lib),
     footprint_lib |-> SomePath(config.footprint_lib),
     step_dir |-> SomePath(config.step_dir)]

\* No file .kci_config.
NoConfigFile ==
    [present |-> FALSE, valid |-> FALSE, symbol_lib |-> NoPath,
     footprint_lib |-> NoPath, step_dir |-> NoPath]

\* A file .kci_config that ConfigFile::load refuses.
BadConfigFile == [NoConfigFile EXCEPT !.present = TRUE]

\* config_file.as_ref().and_then(|config| config.<field>.as_ref()), for the
\* file at config_path.
config_value(file, field) ==
    IF file.present /\ file.valid THEN file[field] ELSE NoPath

\* The ImportConfig resolve_import builds.
resolved_config(cli, file, project_name) ==
    ImportConfig_new(
        resolve_path(cli.symbol_lib, config_value(file, "symbol_lib"),
                     default_config(project_name).symbol_lib),
        resolve_path(cli.footprint_lib, config_value(file, "footprint_lib"),
                     default_config(project_name).footprint_lib),
        resolve_path(cli.step_dir, config_value(file, "step_dir"),
                     default_config(project_name).step_dir))

-----------------------------------------------------------------------------
(***************************************************************************)
(* The printer and the parser, exercised on generated trees: a tree is     *)
(* printed by to_string_pretty and the text is parsed again by parse_all.  *)
(***************************************************************************)
TextChars == {"a", "n", " ", "\n", "\t", "\r", "(", ")", "\"", ";", "#", "\\"}

\* Every atom with a value of at most MaxAtomLen characters, quoted or not.
AllAtoms ==
    {Atom(v, q) : v \in SeqsUpTo(TextChars, MaxAtomLen), q \in BOOLEAN}

\* The atoms the leaves of the generated trees are drawn from.
LeafAtoms ==
    {Atom_new(<<"a">>), Atom_new_quoted(<<"a">>), Atom_new(<<"a", " ", "n">>),
     Atom_new_quoted(<<"\\", "\"">>)}

\* The trees of exactly n nodes, and the sequences of trees of n nodes in all.
RECURSIVE TreesOfSize(_), ForestsOfSize(_)
TreesOfSize(n) ==
    IF n = 1 THEN LeafAtoms \cup {List(<<>>)}
    ELSE {List(f) : f \in ForestsOfSize(n - 1)}

ForestsOfSize(m) ==
    IF m = 0 THEN {<<>>}
    ELSE UNION {LET first == TreesOfSize(k)
                    rest == ForestsOfSize(m - k)
                IN  {<<t>> \o f : t \in first, f \in rest} : k \in 1..m}

GeneratedTrees == UNION {TreesOfSize(n) : n \in 1..MaxNodes}

\* Every atom alone, and as a child of one-line and multi-line lists.
AtomTrees ==
    AllAtoms
    \cup {List(<<a>>) : a \in AllAtoms}
    \cup {List(<<Atom_new(<<"a">>), a>>) : a \in AllAtoms}
    \cup {List(<<a, List(<<a>>), a>>) : a \in AllAtoms}

PropertyEntry(key, value) ==
    List(<<Atom_new(KwProperty), Atom_new_quoted(key), value>>)

SymbolEntry(name, children) ==
    List(<<Atom_new(KwSymbol), name>> \o children)

VersionEntry == List(<<Atom_new(KwVersion), Atom_new(<<"7">>)>>)

\* Symbol libraries: a version entry and symbols whose names and property
\* values are arbitrary atoms.
LibraryTrees ==
    {List(<<Atom_new(KwRoot), VersionEntry,
            SymbolEntry(a, <<PropertyEntry(KeyFootprint, b)>>),
            SymbolEntry(b, <<>>)>>) :
        a \in AllAtoms, b \in {Atom_new(<<>>), Atom_new_quoted(<<"\\", "\"">>)}}

RenderTrees == GeneratedTrees \cup AtomTrees \cup LibraryTrees

NoCall ==
    [n |-> 0, symbol |-> [name |-> <<>>, sexp |-> List(<<>>)], policy |-> "",
     res |-> ROk, before |-> List(<<>>)]

RenderIdle ==
    /\ node = List(<<>>)
    /\ text = <<>>
    /\ reparsed = AOk(<<>>)
    /\ pstep = "idle"

LibIdle ==
    /\ lib = List(<<>>)
    /\ call = NoCall

AssocIdle ==
    /\ asyms = <<>>
    /\ fps = <<>>
    /\ fpLibFile = <<>>
    /\ assoc = [ok |-> TRUE, out |-> <<>>, err |-> "", name |-> <<>>]
    /\ astep = "idle"

\* The locals of import_source before any of them is bound.
NoFrame ==
    [symbols |-> <<>>, next |-> 1, target_lib |-> List(<<>>),
     symbols_added |-> 0, footprints_added |-> 0]

\* import_source has not returned.
Running ==
    [state |-> "running", err |-> "", at |-> "",
     report |-> [symbols_added |-> 0, footprints_added |-> 0,
                 step_files_added |-> 0]]

ImportIdle ==
    /\ source = [valid |-> FALSE, symbol_files |-> <<>>,
                 footprint_files |-> <<>>, step_files |-> <<>>]
    /\ args = [policy |-> "", footprint_lib |-> <<>>]
    /\ disk = [lib |-> None, footprints |-> {}, steps |-> {}]
    /\ libBefore = None
    /\ stage = "idle"
    /\ frame = NoFrame
    /\ effects = <<>>
    /\ result = Running

TablesIdle ==
    /\ tables = [sym |-> None, fp |-> None]
    /\ tconfig = [project_root |-> [absolute |-> TRUE, comps |-> <<>>],
                  symbol_lib |-> [absolute |-> FALSE, comps |-> <<>>],
                  footprint_lib |-> [absolute |-> FALSE, comps |-> <<>>]]
    /\ truns = <<>>

PropsIdle ==
    /\ psym = [name |-> <<>>, sexp |-> List(<<>>)]
    /\ pcall = [n |-> 0, op |-> "", key |-> <<>>, value |-> <<>>,
                before |-> [name |-> <<>>, sexp |-> List(<<>>)], found |-> FALSE]

ParseIdle ==
    /\ ptext = <<>>
    /\ presult = [run |-> FALSE, ok |-> FALSE, items |-> <<>>,
                  err |-> [message |-> "", line |-> Some(0),
                           column |-> Some(0)]]

NoListing == [some |-> FALSE, ok |-> FALSE, syms |-> <<>>]

LibFileIdle ==
    /\ ltext = <<>>
    /\ lopen = "idle"
    /\ listed = NoListing

NoPlan ==
    [state |-> "none", err |-> "",
     config |-> ImportConfig_new(NoPath.v, NoPath.v, NoPath.v),
     created_config |-> FALSE]

CliIdle ==
    /\ cliArgs = [symbol_lib |-> NoPath, footprint_lib |-> NoPath,
                  step_dir |-> NoPath]
    /\ cwdFiles = [config |-> NoConfigFile, project |-> None]
    /\ plan = NoPlan

RenderInit ==
    /\ node \in RenderTrees
    /\ text = <<>>
    /\ reparsed = AOk(<<>>)
    /\ pstep = "tree"
    /\ LibIdle
    /\ AssocIdle
    /\ ImportIdle
    /\ TablesIdle
    /\ PropsIdle
    /\ ParseIdle
    /\ LibFileIdle
    /\ CliIdle

\* Sexp::to_string_pretty on the tree.
Render ==
    /\ pstep = "tree"
    /\ text' = to_string_pretty(node)
    /\ pstep' = "printed"
    /\ UNCHANGED <<node, reparsed, lib, call, asyms, fps, fpLibFile, assoc,
                   astep, source, args, disk, libBefore, stage, frame,
                   effects, result, tables, tconfig, truns, psym, pcall,
                   ptext, presult, ltext, lopen, listed, cliArgs, cwdFiles,
                   plan>>

\* parse_sexps on the printed text.
Reparse ==
    /\ pstep = "printed"
    /\ reparsed' = parse_all(text)
    /\ pstep' = "parsed"
    /\ UNCHANGED <<node, text, lib, call, asyms, fps, fpLibFile, assoc, astep,
                   source, args, disk, libBefore, stage, frame, effects,
                   result, tables, tconfig, truns, psym, pcall, ptext,
                   presult, ltext, lopen, listed, cliArgs, cwdFiles, plan>>

vars ==
    <<node, text, reparsed, pstep, lib, call, asyms, fps, fpLibFile, assoc,
      astep, source, args, disk, libBefore, stage, frame, effects, result,
      tables, tconfig, truns, psym, pcall, ptext, presult, ltext, lopen,
      listed, cliArgs, cwdFiles, plan>>

RenderNext == Render \/ Reparse

SpecRender == RenderInit /\ [][RenderNext]_vars

-----------------------------------------------------------------------------
(***************************************************************************)
(* Properties of the printer and the parser (SpecRender).                  *)
(***************************************************************************)
\* The tree with every atom's quoted flag cleared: list structure and atom
\* values only.
RECURSIVE Plain(_)
Plain(n) ==
    IF n.atom THEN Atom(n.value, FALSE)
    ELSE IF n.items = <<>> THEN List(<<>>)
    ELSE List([i \in 1..Len(n.items) |-> Plain(n.items[i])])

SymbolNames(root) ==
    LET r == KicadSymbolLib_symbols(root)
    IN  [ok |-> r.ok,
         names |-> IF r.syms = <<>> THEN <<>>
                   ELSE [i \in 1..Len(r.syms) |-> Symbol_name(r.syms[i])]]

PropertyValues(root, key) ==
    LET r == KicadSymbolLib_symbols(root)
    IN  IF r.syms = <<>> THEN <<>>
        ELSE [i \in 1..Len(r.syms) |-> Symbol_property_value(r.syms[i], key)]

\* C1: parsing the text the pretty printer produced for a tree yields exactly
\* one top-level tree with the same list structure and the same atom values;
\* the symbol names of symbols() and the property values are the same before
\* and after the cycle.
C1_RoundTrip ==
    pstep = "parsed" =>
        /\ reparsed.ok
        /\ Len(reparsed.items) = 1
        /\ Plain(reparsed.items[1]) = Plain(node)
        /\ SymbolNames(reparsed.items[1]) = SymbolNames(node)
        /\ PropertyValues(reparsed.items[1], KeyFootprint)
               = PropertyValues(node, KeyFootprint)

\* A library whose first symbol has a name with a backslash and a Footprint
\* property went through the cycle.
C1_Witness ==
    /\ pstep = "parsed"
    /\ ensure_root(node).ok
    /\ Len(KicadSymbolLib_symbols(node).syms) = 2
    /\ LET sym == KicadSymbolLib_symbols(node).syms[1]
       IN  /\ \E i \in 1..Len(sym.name) : sym.name[i] = "\\"
           /\ Symbol_property_value(sym, KeyFootprint).some
    /\ SymbolNames(reparsed.items[1]).names = SymbolNames(node).names

\* The atom a rendered text is about: the tree itself, or the only child of
\* a one-element list.
RenderedAtom == IF node.atom THEN node ELSE node.items[1]
RenderedText ==
    IF node.atom THEN SubSeq(text, 1, Len(text) - 1)
    ELSE SubSeq(text, 2, Len(text) - 2)
IsSingleAtom ==
    node.atom \/ (Len(node.items) = 1 /\ node.items[1].atom)

MustQuote(a) ==
    \/ a.quoted
    \/ a.value = <<>>
    \/ \E i \in 1..Len(a.value) :
           a.value[i] \in {" ", "\t", "\n", "\r", "(", ")", "\"", ";", "#"}

\* C2: an atom renders quoted if and only if it was constructed as quoted,
\* or its value is empty, or its value contains whitespace or one of
\* ( ) " ; # ; otherwise it renders bare; the rendered text parses back to
\* the identical value.
C2_QuotedIff ==
    (pstep \in {"printed", "parsed"} /\ IsSingleAtom) =>
        /\ MustQuote(RenderedAtom) =>
               /\ Len(RenderedText) >= 2
               /\ RenderedText[1] = "\""
               /\ RenderedText[Len(RenderedText)] = "\""
        /\ ~MustQuote(RenderedAtom) => RenderedText = RenderedAtom.value
        /\ pstep = "parsed" =>
               /\ reparsed.ok
               /\ Len(reparsed.items) = 1
               /\ LET back == IF node.atom THEN reparsed.items[1]
                              ELSE reparsed.items[1].items[1]
                  IN  back.atom /\ back.value = RenderedAtom.value

\* An atom constructed unquoted whose value holds a space was rendered
\* quoted and parsed back.
C2_Witness ==
    /\ pstep = "parsed"
    /\ node.atom
    /\ ~node.quoted
    /\ \E i \in 1..Len(node.value) : node.value[i] = " "
    /\ text[1] = "\""
    /\ reparsed.items[1].value = node.value

-----------------------------------------------------------------------------
(***************************************************************************)
(* A symbol library under add_symbol calls.  The library is what           *)
(* KicadSymbolLib::parse accepted: a list that starts with the root        *)
(* keyword, with any children after it (parse checks no more than that, so *)
(* two symbols of one name may be present).                                *)
(***************************************************************************)
NameA == <<"A">>
NameB == <<"B">>
NameC == <<"C">>
KeyValue == <<"V", "a", "l", "u", "e">>

SymbolSexp(name, value) ==
    IF value = <<>> THEN SymbolEntry(Atom_new_quoted(name), <<>>)
    ELSE SymbolEntry(Atom_new_quoted(name),
                     <<PropertyEntry(KeyValue, Atom_new_quoted(value))>>)

\* The children an initial library is built from.
LibChildren ==
    {VersionEntry, SymbolSexp(NameA, <<>>), SymbolSexp(NameA, <<"o", "l", "d">>),
     SymbolSexp(NameB, <<>>)}

InitialLibs ==
    {List(<<Atom_new(KwRoot)>> \o cs) : cs \in SeqsUpTo(LibChildren, MaxLibChildren)}

\* The symbols handed to add_symbol, each made by Symbol::from_sexp.
IncomingSymbols ==
    {Symbol_from_sexp(x).sym :
        x \in {SymbolSexp(NameA, <<"o", "l", "d">>), SymbolSexp(NameA, <<"n", "e", "w">>),
               SymbolSexp(NameB, <<"n", "e", "w">>), SymbolSexp(NameC, <<>>)}}

LibInit ==
    /\ lib \in InitialLibs
    /\ call = NoCall
    /\ RenderIdle
    /\ AssocIdle
    /\ ImportIdle
    /\ TablesIdle
    /\ PropsIdle
    /\ ParseIdle
    /\ ltext = <<>>
    /\ lopen = "open"
    /\ listed = NoListing
    /\ CliIdle

\* KicadSymbolLib::add_symbol(symbol, policy).
AddSymbol(symbol, policy) ==
    /\ lopen = "open"
    /\ call.n < MaxCalls
    /\ LET r == KicadSymbolLib_add_symbol(lib, symbol, policy)
       IN  /\ lib' = r.root
           /\ call' = [n |-> call.n + 1, symbol |-> symbol, policy |-> policy,
                       res |-> r.res, before |-> lib]
    /\ listed' = NoListing
    /\ UNCHANGED <<node, text, reparsed, pstep, asyms, fps, fpLibFile, assoc,
                   astep, source, args, disk, libBefore, stage, frame,
                   effects, result, tables, tconfig, truns, psym, pcall,
                   ptext, presult, ltext, lopen, cliArgs, cwdFiles, plan>>

LibNext == \E symbol \in IncomingSymbols, policy \in AddPolicy : AddSymbol(symbol, policy)

SpecLib == LibInit /\ [][LibNext]_vars

(***************************************************************************)
(* Properties of add_symbol (SpecLib).                                     *)
(***************************************************************************)
\* The children of the root after the root keyword that are symbols named name.
Matches(root, name) ==
    {i \in 2..Len(root.items) : symbol_name(root.items[i]) = Some(name)}

FirstMatch(root, name) ==
    CHOOSE i \in Matches(root, name) : \A j \in Matches(root, name) : i <= j

Called(policy) == call.n > 0 /\ call.policy = policy

\* C3: add_symbol(s, ReplaceExisting) on a library that has a child symbol
\* named s.name overwrites the first such child with s at the same index;
\* the number of root children is unchanged, every other child is unchanged
\* and keeps its position, and the call reports success.
C3_ReplaceInPlace ==
    (Called(ReplaceExisting) /\ Matches(call.before, call.symbol.name) # {}) =>
        LET k == FirstMatch(call.before, call.symbol.name)
        IN  /\ call.res.ok
            /\ ~lib.atom
            /\ Len(lib.items) = Len(call.before.items)
            /\ lib.items[k] = call.symbol.sexp
            /\ \A i \in 1..Len(lib.items) :
                   i # k => lib.items[i] = call.before.items[i]

\* A library with two symbols named A had the first replaced by a different
\* symbol A, the second kept.
C3_Witness ==
    /\ Called(ReplaceExisting)
    /\ Cardinality(Matches(call.before, call.symbol.name)) = 2
    /\ LET k == FirstMatch(call.before, call.symbol.name)
       IN  /\ call.before.items[k] # call.symbol.sexp
           /\ lib.items[k] = call.symbol.sexp
    /\ lib # call.before

\* C4: add_symbol(s, SkipExisting) on a library that has a child symbol
\* named s.name reports success and leaves the library tree, and so its
\* serialized text, as it was.
C4_SkipUnchanged ==
    (Called(SkipExisting) /\ Matches(call.before, call.symbol.name) # {}) =>
        /\ call.res.ok
        /\ lib = call.before
        /\ KicadSymbolLib_to_string_pretty(lib)
               = KicadSymbolLib_to_string_pretty(call.before)

\* A symbol that differs from the existing one of its name was skipped.
C4_Witness ==
    /\ Called(SkipExisting)
    /\ Matches(call.before, call.symbol.name) # {}
    /\ call.before.items[FirstMatch(call.before, call.symbol.name)] # call.symbol.sexp
    /\ call.res.ok
    /\ lib = call.before

\* C5: add_symbol(s, ErrorOnConflict) on a library that has a child symbol
\* named s.name returns a conflict error that names the symbol and leaves
\* the library tree as it was.
C5_ConflictError ==
    (Called(ErrorOnConflict) /\ Matches(call.before, call.symbol.name) # {}) =>
        /\ ~call.res.ok
        /\ call.res.msg = "symbol already exists"
        /\ call.res.name = call.symbol.name
        /\ lib = call.before

\* A conflict was reported on the second call, for a symbol the first call
\* had appended.
C5_Witness ==
    /\ Called(ErrorOnConflict)
    /\ call.n = 2
    /\ Matches(call.before, call.symbol.name) # {}
    /\ ~call.res.ok
    /\ call.res.name = NameC

\* C6: when no child of the root after the root keyword is a symbol named
\* s.name, add_symbol(s, p) succeeds for every policy p, appends s as the
\* last root child and leaves the existing children unchanged and in order.
C6_AppendWhenAbsent ==
    (call.n > 0 /\ Matches(call.before, call.symbol.name) = {}) =>
        /\ call.res.ok
        /\ ~lib.atom
        /\ lib.items = Append(call.before.items, call.symbol.sexp)

\* A symbol of a new name was appended to a library with other children,
\* under ErrorOnConflict.
C6_Witness ==
    /\ Called(ErrorOnConflict)
    /\ Matches(call.before, call.symbol.name) = {}
    /\ Len(call.before.items) >= 3
    /\ call.res.ok
    /\ lib.items[Len(lib.items)] = call.symbol.sexp

-----------------------------------------------------------------------------
(***************************************************************************)
(* The association stage of import_source: the symbols of the parsed       *)
(* symbol files, the discovered footprints (at least one, or the import    *)
(* has stopped with MissingFootprints) and the destination footprint       *)
(* library.                                                                *)
(***************************************************************************)
ValueChars == {"A", ":", " "}
FootprintValues == SeqsUpTo(ValueChars, MaxValueLen)
FootprintStems == {<<"A">>, <<"B">>, <<"A", " ">>}
SymbolNamePool == {NameA, NameB, NameC}
FootprintLibFiles == {<<"D">> \o DotPretty, <<"D">>, DotPretty}

MakeSymbol(name, children) ==
    Symbol_from_sexp(SymbolEntry(Atom_new_quoted(name), children)).sym

\* The children of a parsed symbol: no property, a Footprint property of any
\* value, another property with trailing fields, a Footprint entry whose
\* value is a list followed by one whose value is an atom, and property
\* lists of one and of two elements.
SymbolChildren ==
    {<<>>}
    \cup {<<PropertyEntry(KeyFootprint, Atom_new_quoted(v))>> : v \in FootprintValues}
    \cup {<<List(<<Atom_new(KwProperty), Atom_new_quoted(KeyValue),
                   Atom_new_quoted(<<"x">>),
                   List(<<Atom_new(<<"a", "t">>), Atom_new(<<"0">>)>>)>>)>>}
    \cup {<<PropertyEntry(KeyFootprint, List(<<>>)),
            PropertyEntry(KeyFootprint, Atom_new_quoted(<<"A">>))>>}
    \cup {<<List(<<Atom_new(KwProperty)>>)>>,
           <<List(<<Atom_new(KwProperty), Atom_new_quoted(KeyFootprint)>>)>>}

ParsedSymbols ==
    {MakeSymbol(n, cs) : n \in SymbolNamePool, cs \in SymbolChildren}

\* The symbols of imports with more than one symbol.
FewSymbols ==
    {MakeSymbol(NameA, <<>>), MakeSymbol(NameC, <<>>),
     MakeSymbol(NameB, <<PropertyEntry(KeyFootprint, Atom_new_quoted(<<"A">>))>>)}

SymbolVecs ==
    {<<sym>> : sym \in ParsedSymbols}
    \cup {v \in SeqsUpTo(FewSymbols, MaxSymbols) : Len(v) >= 2}

AssocInit ==
    /\ asyms \in SymbolVecs
    /\ fps \in SeqsUpTo(FootprintStems, MaxFootprints) \ {<<>>}
    /\ fpLibFile \in FootprintLibFiles
    /\ assoc = [ok |-> TRUE, out |-> <<>>, err |-> "", name |-> <<>>]
    /\ astep = "parsed"
    /\ RenderIdle
    /\ LibIdle
    /\ ImportIdle
    /\ TablesIdle
    /\ PropsIdle
    /\ ParseIdle
    /\ LibFileIdle
    /\ CliIdle

\* import_source, from footprint_lib_name to associate_footprints.
Associate ==
    /\ astep = "parsed"
    /\ LET dest_name == footprint_lib_name(fpLibFile)
       IN  assoc' = IF ~dest_name.ok
                    THEN [ok |-> FALSE, out |-> <<>>, err |-> dest_name.err,
                          name |-> <<>>]
                    ELSE associate_footprints(asyms, fps, dest_name.v)
    /\ astep' = "done"
    /\ UNCHANGED <<node, text, reparsed, pstep, lib, call, asyms, fps,
                   fpLibFile, source, args, disk, libBefore, stage, frame,
                   effects, result, tables, tconfig, truns, psym, pcall,
                   ptext, presult, ltext, lopen, listed, cliArgs, cwdFiles,
                   plan>>

AssocNext == Associate

SpecAssoc == AssocInit /\ [][AssocNext]_vars

(***************************************************************************)
(* Properties of the association (SpecAssoc).                              *)
(***************************************************************************)
\* The stage ran with a destination library whose name could be derived.
Associated == astep = "done" /\ fpLibFile # DotPretty

\* The destination library's name: the file name without a final ".pretty".
DestLib ==
    LET n == Len(fpLibFile) - 7
    IN  IF n >= 0 /\ SubSeq(fpLibFile, n + 1, Len(fpLibFile)) = DotPretty
        THEN SubSeq(fpLibFile, 1, n)
        ELSE fpLibFile

Discovered == {fps[i] : i \in 1..Len(fps)}

\* The part of a Footprint value after its last colon, or the whole value.
NamePortion(value) ==
    IF \E i \in 1..Len(value) : value[i] = ":"
    THEN LET last == CHOOSE i \in 1..Len(value) :
                         value[i] = ":" /\ \A j \in (i + 1)..Len(value) : value[j] # ":"
         IN  SubSeq(value, last + 1, Len(value))
    ELSE value

Declared(sym) == Symbol_property_value(sym, KeyFootprint)

\* Step 1 as stated: a non-empty Footprint property whose name portion is
\* among the discovered footprints.
Step1(sym) ==
    /\ Declared(sym).some
    /\ Declared(sym).v # <<>>
    /\ NamePortion(Declared(sym).v) \in Discovered

Blank(ch) == ch \in {" ", "\t", "\n", "\r"}

\* The value without the whitespace around it.
Stripped(value) ==
    LET kept == {i \in 1..Len(value) : ~Blank(value[i])}
    IN  IF kept = {} THEN <<>>
        ELSE SubSeq(value, CHOOSE i \in kept : \A j \in kept : i <= j,
                           CHOOSE i \in kept : \A j \in kept : i >= j)

\* Step 1 on the value with the whitespace around it removed.
Step1Trimmed(sym) ==
    /\ Declared(sym).some
    /\ Stripped(Declared(sym).v) # <<>>
    /\ NamePortion(Stripped(Declared(sym).v)) \in Discovered

\* The i-th symbol ended with the Footprint property '<dest-lib>:<name>'.
Resolved(i, name) ==
    /\ Len(asyms) = 1 => assoc.ok
    /\ assoc.ok =>
           /\ Len(assoc.out) = Len(asyms)
           /\ assoc.out[i].name = asyms[i].name
           /\ Symbol_property_value(assoc.out[i], KeyFootprint)
                  = Some(DestLib \o <<":">> \o name)

Symbols == 1..Len(asyms)

\* C7 as stated: a symbol with a non-empty Footprint property whose name
\* portion (after the last ':', else the whole value) is among the
\* discovered footprints gets that footprint, whatever the number of
\* footprints and the symbol's name.
C7_DeclaredSelected ==
    Associated =>
        \A i \in Symbols :
            Step1(asyms[i]) => Resolved(i, NamePortion(Declared(asyms[i]).v))

\* C7, amended: the Footprint value is taken without the whitespace around
\* it; if what is left is non-empty and its name portion is among the
\* discovered footprints, the symbol ends with '<dest-lib>:<that name>',
\* whatever the number of footprints and the symbol's name.
C7_TrimmedDeclaredSelected ==
    Associated =>
        \A i \in Symbols :
            Step1Trimmed(asyms[i]) =>
                Resolved(i, NamePortion(Stripped(Declared(asyms[i]).v)))

\* Symbol B with Footprint "A:A", footprints A and B discovered: B ends with
\* D:A.
C7_Witness ==
    /\ Associated
    /\ Len(asyms) = 1
    /\ asyms[1].name = NameB
    /\ Declared(asyms[1]) = Some(<<"A", ":", "A">>)
    /\ Discovered = {NameA, NameB}
    /\ assoc.ok
    /\ Declared(assoc.out[1]) = Some(<<"D", ":", "A">>)

\* C8: with exactly one discovered footprint, every symbol step 1 did not
\* resolve gets that footprint, whatever its name.
C8_SingleFootprint ==
    (Associated /\ Len(fps) = 1) =>
        \A i \in Symbols : ~Step1(asyms[i]) => Resolved(i, fps[1])

\* Symbol C with an empty Footprint property and the single footprint B:
\* C ends with D:B.
C8_Witness ==
    /\ Associated
    /\ fps = <<NameB>>
    /\ Len(asyms) = 1
    /\ asyms[1].name = NameC
    /\ Declared(asyms[1]) = Some(<<>>)
    /\ assoc.ok
    /\ Declared(assoc.out[1]) = Some(<<"D", ":", "B">>)

\* C9 as stated: with no usable Footprint property and a number of
\* footprints other than one, a symbol whose name is a discovered
\* footprint's name gets that footprint.
C9_NameMatch ==
    (Associated /\ Len(fps) # 1) =>
        \A i \in Symbols :
            (~Step1(asyms[i]) /\ asyms[i].name \in Discovered) =>
                Resolved(i, asyms[i].name)

\* C9, amended: usable is judged on the Footprint value without the
\* whitespace around it.
C9_TrimmedNameMatch ==
    (Associated /\ Len(fps) # 1) =>
        \A i \in Symbols :
            (~Step1Trimmed(asyms[i]) /\ asyms[i].name \in Discovered) =>
                Resolved(i, asyms[i].name)

\* Symbol B whose Footprint property names no discovered footprint, with
\* footprints "A " and B discovered: B ends with D:B.
C9_Witness ==
    /\ Associated
    /\ Len(asyms) = 1
    /\ asyms[1].name = NameB
    /\ Declared(asyms[1]) = Some(<<"A">>)
    /\ fps = <<<<"A", " ">>, NameB>>
    /\ assoc.ok
    /\ Declared(assoc.out[1]) = Some(<<"D", ":", "B">>)

\* Step 1 as stated, or on the value without the whitespace around it.
Usable(sym, trimmed) == IF trimmed THEN Step1Trimmed(sym) ELSE Step1(sym)

\* The symbols no step resolves, for a given reading of step 1.
Unresolvable(i, trimmed) ==
    ~Usable(asyms[i], trimmed) /\ Len(fps) > 1 /\ asyms[i].name \notin Discovered

\* The footprint steps 1 to 3 give the i-th symbol.
StepChoice(i, trimmed) ==
    IF Usable(asyms[i], trimmed)
    THEN IF trimmed THEN NamePortion(Stripped(Declared(asyms[i]).v))
         ELSE NamePortion(Declared(asyms[i]).v)
    ELSE IF Len(fps) = 1 THEN fps[1]
    ELSE asyms[i].name

NoGuess(trimmed) ==
    /\ (\E i \in Symbols : Unresolvable(i, trimmed)) =>
           /\ ~assoc.ok
           /\ assoc.err = "Association"
           /\ LET first == CHOOSE i \in Symbols :
                               /\ Unresolvable(i, trimmed)
                               /\ \A j \in 1..(i - 1) : ~Unresolvable(j, trimmed)
              IN  assoc.name = asyms[first].name
    /\ assoc.ok => \A i \in Symbols : Resolved(i, StepChoice(i, trimmed))

\* C10 as stated: a symbol with no usable Footprint property, more than one
\* discovered footprint and no footprint of its name makes the import fail
\* with an Association error that names it; no footprint is chosen by a
\* rule other than steps 1 to 3.
C10_NoGuess == Associated => NoGuess(FALSE)

\* C10, amended: usable is judged on the Footprint value without the
\* whitespace around it, and the error names the first such symbol.
C10_TrimmedNoGuess == Associated => NoGuess(TRUE)

\* Of two symbols the first is resolved by its name and the second, C, by
\* nothing: the stage fails with an Association error that names C.
C10_Witness ==
    /\ Associated
    /\ fps = <<NameA, NameB>>
    /\ Len(asyms) = 2
    /\ asyms[1].name = NameA
    /\ asyms[2].name = NameC
    /\ ~assoc.ok
    /\ assoc.err = "Association"
    /\ assoc.name = NameC


-----------------------------------------------------------------------------
(***************************************************************************)
(* import_source, one action per stage.  Every stage that touches the file *)
(* system may fail with an I/O error; a failed stage returns the error and *)
(* nothing after it runs.                                                  *)
(***************************************************************************)
LibText(children) ==
    to_string_pretty(List(<<Atom_new(KwRoot), VersionEntry>> \o children))

\* The contents of a symbol file: a library with symbol A declaring
\* footprint A, a library with symbol C and no Footprint property, and a
\* text that does not parse.
SymbolFileTexts ==
    {LibText(<<SymbolEntry(Atom_new_quoted(NameA),
                           <<PropertyEntry(KeyFootprint, Atom_new_quoted(NameA))>>)>>),
     LibText(<<SymbolSexp(NameC, <<>>)>>),
     <<"(">>}

\* The first n footprint files found, named A, B, A, ... and the first n
\* 3D-model files.
FootprintFiles(n) == [i \in 1..n |-> IF i % 2 = 1 THEN NameA ELSE NameB]
StepFiles(n) == [i \in 1..n |-> <<"m">>]

Sources ==
    {[valid |-> FALSE, symbol_files |-> <<>>, footprint_files |-> <<>>,
      step_files |-> <<>>]}
    \cup {[valid |-> TRUE, symbol_files |-> sf, footprint_files |-> FootprintFiles(nf),
           step_files |-> StepFiles(ns)] :
            sf \in SeqsUpTo(SymbolFileTexts, MaxSymbolFiles),
            nf \in 0..MaxFootprints, ns \in 0..MaxStepFiles}

\* The target library file before the import: absent, a library that holds
\* symbol A, or a text that does not parse.
TargetLibFiles ==
    {None, Some(LibText(<<SymbolSexp(NameA, <<"o", "l", "d">>)>>)), Some(<<")">>)}

ImportInit ==
    /\ source \in Sources
    /\ args \in [policy : AddPolicy, footprint_lib : {<<"D">> \o DotPretty, DotPretty}]
    /\ disk \in [lib : TargetLibFiles, footprints : {{}}, steps : {{}}]
    /\ libBefore = disk.lib
    /\ stage = "start"
    /\ frame = NoFrame
    /\ effects = <<>>
    /\ result = Running
    /\ RenderIdle
    /\ LibIdle
    /\ AssocIdle
    /\ TablesIdle
    /\ PropsIdle
    /\ ParseIdle
    /\ LibFileIdle
    /\ CliIdle

\* return Err(err), or the ? operator on an Err.
Abort(err) ==
    /\ stage' = "failed"
    /\ result' = [result EXCEPT !.state = "err", !.err = err, !.at = stage]

\* SourceContext::open, find_files for symbols and footprints, and
\* find_step_files.
Discover ==
    /\ stage = "start"
    /\ \E io_ok \in BOOLEAN :
          LET err == IF ~source.valid THEN "InvalidSource"
                     ELSE IF ~io_ok THEN "Io"
                     ELSE IF source.symbol_files = <<>> THEN "MissingSymbols"
                     ELSE IF source.footprint_files = <<>> THEN "MissingFootprints"
                     ELSE ""
          IN  IF err = "" THEN stage' = "discovered" /\ result' = result
              ELSE Abort(err)
    /\ UNCHANGED <<source, args, disk, libBefore, frame, effects>>
    /\ UNCHANGED <<node, text, reparsed, pstep, lib, call, asyms, fps,
                   fpLibFile, assoc, astep, tables, tconfig, truns, psym,
                   pcall, ptext, presult, ltext, lopen, listed, cliArgs,
                   cwdFiles, plan>>

\* The loop over symbol_files: read, parse, collect symbols().
ParseSymbols ==
    /\ stage = "discovered"
    /\ \E io_ok \in BOOLEAN :
       \E read \in {read_symbols(source.symbol_files, 1, <<>>)} :
              IF ~io_ok THEN Abort("Io") /\ frame' = frame
              ELSE IF ~read.ok THEN Abort("Symbol") /\ frame' = frame
              ELSE /\ stage' = "parsed"
                   /\ result' = result
                   /\ frame' = [frame EXCEPT !.symbols = read.syms]
    /\ UNCHANGED <<source, args, disk, libBefore, effects>>
    /\ UNCHANGED <<node, text, reparsed, pstep, lib, call, asyms, fps,
                   fpLibFile, assoc, astep, tables, tconfig, truns, psym,
                   pcall, ptext, presult, ltext, lopen, listed, cliArgs,
                   cwdFiles, plan>>

\* collect_footprints, footprint_lib_name and associate_footprints.
AssociateAll ==
    /\ stage = "parsed"
    /\ \E dest_name \in {footprint_lib_name(args.footprint_lib)} :
          IF ~dest_name.ok THEN Abort(dest_name.err) /\ frame' = frame
          ELSE \E done \in {associate_footprints(frame.symbols,
                                                 source.footprint_files,
                                                 dest_name.v)} :
                  IF ~done.ok THEN Abort(done.err) /\ frame' = frame
                  ELSE /\ stage' = "associated"
                       /\ result' = result
                       /\ frame' = [frame EXCEPT !.symbols = done.out]
    /\ UNCHANGED <<source, args, disk, libBefore, effects>>
    /\ UNCHANGED <<node, text, reparsed, pstep, lib, call, asyms, fps,
                   fpLibFile, assoc, astep, tables, tconfig, truns, psym,
                   pcall, ptext, presult, ltext, lopen, listed, cliArgs,
                   cwdFiles, plan>>

\* let symbols_added = symbols.len(), then load_or_create_symbol_lib.
LoadTarget ==
    /\ stage = "associated"
    /\ \E io_ok \in BOOLEAN :
       \E loaded \in {load_or_create_symbol_lib(disk.lib, io_ok)} :
              IF ~loaded.ok
              THEN /\ Abort(loaded.err)
                   /\ frame' = [frame EXCEPT !.symbols_added = Len(frame.symbols)]
              ELSE /\ stage' = "merging"
                   /\ result' = result
                   /\ frame' = [frame EXCEPT !.symbols_added = Len(frame.symbols),
                                             !.target_lib = loaded.root]
    /\ UNCHANGED <<source, args, disk, libBefore, effects>>
    /\ UNCHANGED <<node, text, reparsed, pstep, lib, call, asyms, fps,
                   fpLibFile, assoc, astep, tables, tconfig, truns, psym,
                   pcall, ptext, presult, ltext, lopen, listed, cliArgs,
                   cwdFiles, plan>>

\* One iteration of the merge loop in which a failed add_symbol does not
\* end the import.
MergeOne_ignores_conflict ==
    /\ stage = "merging"
    /\ frame.next <= Len(frame.symbols)
    /\ LET symbol == frame.symbols[frame.next]
           added == KicadSymbolLib_add_symbol(frame.target_lib, symbol, args.policy)
           arm == match_arm(find_existing(frame.target_lib.items, Symbol_name(symbol)),
                            args.policy)
       IN  /\ effects' = Append(effects, arm)
           /\ stage' = stage
           /\ result' = result
           /\ frame' = [frame EXCEPT !.target_lib = added.root, !.next = @ + 1]
    /\ UNCHANGED <<source, args, disk, libBefore>>
    /\ UNCHANGED <<node, text, reparsed, pstep, lib, call, asyms, fps,
                   fpLibFile, assoc, astep, tables, tconfig, truns, psym,
                   pcall, ptext, presult, ltext, lopen, listed, cliArgs,
                   cwdFiles, plan>>

\* One iteration of for symbol in symbols { target_lib.add_symbol(symbol,
\* policy)?; }.  The arm add_symbol took is recorded in effects.
MergeOne ==
    /\ stage = "merging"
    /\ frame.next <= Len(frame.symbols)
    /\ LET symbol == frame.symbols[frame.next]
           added == KicadSymbolLib_add_symbol(frame.target_lib, symbol, args.policy)
           arm == match_arm(find_existing(frame.target_lib.items, Symbol_name(symbol)),
                            args.policy)
       IN  /\ effects' = Append(effects, arm)
           /\ IF ~added.res.ok THEN Abort("Symbol") /\ frame' = frame
              ELSE /\ stage' = stage
                   /\ result' = result
                   /\ frame' = [frame EXCEPT !.target_lib = added.root,
                                             !.next = @ + 1]
    /\ UNCHANGED <<source, args, disk, libBefore>>
    /\ UNCHANGED <<node, text, reparsed, pstep, lib, call, asyms, fps,
                   fpLibFile, assoc, astep, tables, tconfig, truns, psym,
                   pcall, ptext, presult, ltext, lopen, listed, cliArgs,
                   cwdFiles, plan>>

\* create_dir_all on the parent, then fs::write of to_string_pretty.  A
\* write that fails leaves the file as it was or truncated.
WriteLibrary ==
    /\ stage = "merging"
    /\ frame.next > Len(frame.symbols)
    /\ \E io \in {"ok", "create_dir_all", "write"} :
          IF io = "ok"
          THEN /\ disk' = [disk EXCEPT
                             !.lib = Some(KicadSymbolLib_to_string_pretty(
                                              frame.target_lib))]
               /\ effects' = Append(effects, "write")
               /\ stage' = "written"
               /\ result' = result
          ELSE IF io = "create_dir_all"
          THEN Abort("Io") /\ UNCHANGED <<disk, effects>>
          ELSE /\ \E left \in {disk.lib, Some(<<>>)} :
                      disk' = [disk EXCEPT !.lib = left]
               /\ effects' = Append(effects, "write")
               /\ Abort("Io")
    /\ UNCHANGED <<source, args, libBefore, frame>>
    /\ UNCHANGED <<node, text, reparsed, pstep, lib, call, asyms, fps,
                   fpLibFile, assoc, astep, tables, tconfig, truns, psym,
                   pcall, ptext, presult, ltext, lopen, listed, cliArgs,
                   cwdFiles, plan>>

\* copy_footprints at the point of copy_steps: files are copied before
\* the library has been written.
CopyFootprints_before_write ==
    /\ stage = "merging"
    /\ frame.next > Len(frame.symbols)
    /\ disk' = [disk EXCEPT !.footprints = @ \cup
                   {source.footprint_files[i] : i \in 1..Len(source.footprint_files)}]
    /\ effects' = effects \o [i \in 1..Len(source.footprint_files) |-> "copy_footprint"]
    /\ frame' = [frame EXCEPT !.footprints_added = Len(source.footprint_files)]
    /\ stage' = "footprints_copied"
    /\ result' = result
    /\ UNCHANGED <<source, args, libBefore>>
    /\ UNCHANGED <<node, text, reparsed, pstep, lib, call, asyms, fps,
                   fpLibFile, assoc, astep, tables, tconfig, truns, psym,
                   pcall, ptext, presult, ltext, lopen, listed, cliArgs,
                   cwdFiles, plan>>

\* copy_footprints: create_dir_all, then fs::copy of each file in turn; the
\* first copied files stay when a later copy fails.
CopyFootprints ==
    /\ stage = "written"
    /\ \E dir_ok \in BOOLEAN, copied \in 0..Len(source.footprint_files) :
          /\ dir_ok \/ copied = 0
          /\ disk' = [disk EXCEPT !.footprints = @ \cup
                         {source.footprint_files[i] : i \in 1..copied}]
          /\ effects' = effects \o [i \in 1..copied |-> "copy_footprint"]
          /\ IF dir_ok /\ copied = Len(source.footprint_files)
             THEN /\ frame' = [frame EXCEPT !.footprints_added = copied]
                  /\ stage' = "footprints_copied"
                  /\ result' = result
             ELSE Abort("Io") /\ frame' = frame
    /\ UNCHANGED <<source, args, libBefore>>
    /\ UNCHANGED <<node, text, reparsed, pstep, lib, call, asyms, fps,
                   fpLibFile, assoc, astep, tables, tconfig, truns, psym,
                   pcall, ptext, presult, ltext, lopen, listed, cliArgs,
                   cwdFiles, plan>>

\* copy_steps that undoes the import when a copy fails: the library file
\* and the footprint library are put back as they were.
CopySteps_rolls_back ==
    /\ stage = "footprints_copied"
    /\ \E dir_ok \in BOOLEAN, copied \in 0..Len(source.step_files) :
          /\ dir_ok \/ copied = 0
          /\ source.step_files = <<>> => dir_ok
          /\ effects' = effects \o [i \in 1..copied |-> "copy_step"]
          /\ IF dir_ok /\ copied = Len(source.step_files)
             THEN /\ stage' = "done"
                  /\ disk' = [disk EXCEPT !.steps = @ \cup
                                 {source.step_files[i] : i \in 1..copied}]
                  /\ result' = [result EXCEPT
                         !.state = "ok",
                         !.report = [symbols_added |-> frame.symbols_added,
                                     footprints_added |-> frame.footprints_added,
                                     step_files_added |-> copied]]
             ELSE /\ Abort("Io")
                  /\ disk' = [disk EXCEPT !.lib = libBefore, !.footprints = {}]
    /\ UNCHANGED <<source, args, libBefore, frame>>
    /\ UNCHANGED <<node, text, reparsed, pstep, lib, call, asyms, fps,
                   fpLibFile, assoc, astep, tables, tconfig, truns, psym,
                   pcall, ptext, presult, ltext, lopen, listed, cliArgs,
                   cwdFiles, plan>>

\* copy_steps (nothing is created when there are no 3D-model files), then
\* Ok(ImportReport).
CopySteps ==
    /\ stage = "footprints_copied"
    /\ \E dir_ok \in BOOLEAN, copied \in 0..Len(source.step_files) :
          /\ dir_ok \/ copied = 0
          /\ source.step_files = <<>> => dir_ok
          /\ disk' = [disk EXCEPT !.steps = @ \cup
                         {source.step_files[i] : i \in 1..copied}]
          /\ effects' = effects \o [i \in 1..copied |-> "copy_step"]
          /\ IF dir_ok /\ copied = Len(source.step_files)
             THEN /\ stage' = "done"
                  /\ result' = [result EXCEPT
                         !.state = "ok",
                         !.report = [symbols_added |-> frame.symbols_added,
                                     footprints_added |-> frame.footprints_added,
                                     step_files_added |-> copied]]
             ELSE Abort("Io")
    /\ UNCHANGED <<source, args, libBefore, frame>>
    /\ UNCHANGED <<node, text, reparsed, pstep, lib, call, asyms, fps,
                   fpLibFile, assoc, astep, tables, tconfig, truns, psym,
                   pcall, ptext, presult, ltext, lopen, listed, cliArgs,
                   cwdFiles, plan>>

ImportNext ==
    \/ Discover
    \/ ParseSymbols
    \/ AssociateAll
    \/ LoadTarget
    \/ MergeOne
    \/ WriteLibrary
    \/ CopyFootprints
    \/ CopySteps

SpecImport == ImportInit /\ [][ImportNext]_vars

-----------------------------------------------------------------------------
(***************************************************************************)
(* Properties of import_source (SpecImport).                               *)
(***************************************************************************)
\* How many entries of seq are in S.
Count(seq, S) == Cardinality({i \in 1..Len(seq) : seq[i] \in S})

AddArms == {"skip", "conflict", "replace", "push"}
Copies == {"copy_footprint", "copy_step"}

\* import_source returned an error from discovery, parsing, association,
\* loading the target library or a merge.
FailedBeforeWrite ==
    /\ result.state = "err"
    /\ \/ result.at \in {"start", "discovered", "parsed", "associated"}
       \/ result.at = "merging" /\ result.err = "Symbol"

\* C11: the target library file is written at most once in a run, and only
\* after an add_symbol call was made for every symbol and none of them
\* failed; when discovery, parsing, association, loading the target library
\* or a merge fails, the file is exactly what it was before the import.
C11_WriteOnceAfterMerges ==
    /\ Count(effects, {"write"}) <= 1
    /\ \A w \in 1..Len(effects) :
          effects[w] = "write" =>
              /\ Count(SubSeq(effects, 1, w - 1), AddArms) = Len(frame.symbols)
              /\ Count(effects, {"conflict"}) = 0
              /\ frame.next = Len(frame.symbols) + 1
    /\ FailedBeforeWrite => disk.lib = libBefore /\ Count(effects, {"write"}) = 0

\* Under ErrorOnConflict the second symbol of the source met a symbol of its
\* name in the existing library, after the first one had been appended in
\* memory: the import failed and the file is the one from before.
C11_Witness ==
    /\ args.policy = ErrorOnConflict
    /\ effects = <<"push", "conflict">>
    /\ result.state = "err"
    /\ result.err = "Symbol"
    /\ libBefore.some
    /\ disk.lib = libBefore

StageOrder ==
    <<"start", "discovered", "parsed", "associated", "merging", "written",
      "footprints_copied", "done">>

StageIndex(s) == FirstOf({i \in 1..Len(StageOrder) : StageOrder[i] = s})

\* Every symbol about to be merged carries a Footprint reference into the
\* destination library to one of the discovered footprints.
AllAssociated ==
    \A i \in 1..Len(frame.symbols) :
        \E f \in 1..Len(source.footprint_files) :
            Symbol_property_value(frame.symbols[i], KeyFootprint)
                = Some(footprint_lib_name(args.footprint_lib).v \o <<":">>
                           \o source.footprint_files[f])

\* C12: every step of import_source goes from one stage to the next in the
\* order discover, parse, associate, merge (one symbol per step), write, copy
\* footprints, copy 3D models, or to failure, and nothing runs after a
\* failure; a step that copies a file is taken with the library file already
\* written, and a step that merges a symbol is taken with every symbol
\* associated.
C12_StagesInOrder ==
    [][/\ stage \notin {"failed", "done"}
       /\ \/ stage' = "failed"
          \/ StageIndex(stage') = StageIndex(stage) + 1
          \/ stage = "merging" /\ stage' = "merging"
       /\ Count(effects', Copies) > Count(effects, Copies) =>
              /\ Count(effects, {"write"}) = 1
              /\ disk.lib = Some(to_string_pretty(frame.target_lib))
       /\ Count(effects', AddArms) > Count(effects, AddArms) =>
              /\ StageIndex(stage) > StageIndex("associated")
              /\ AllAssociated]_vars

\* An import that ran to the end: it merged, wrote the library once, then
\* copied a footprint file and a 3D-model file.
C12_Witness ==
    /\ stage = "done"
    /\ effects = <<"replace", "write", "copy_footprint", "copy_step">>
    /\ AllAssociated

\* C13: on a successful import the reported symbols count is the number of
\* add_symbol calls that appended or replaced a child of the library, and
\* footprints_added and step_files_added are the numbers of footprint and
\* 3D-model files copied.
C13_ReportCounts ==
    result.state = "ok" =>
        /\ result.report.symbols_added = Count(effects, {"push", "replace"})
        /\ result.report.footprints_added = Count(effects, {"copy_footprint"})
        /\ result.report.step_files_added = Count(effects, {"copy_step"})

-----------------------------------------------------------------------------
(***************************************************************************)
(* ensure_project_tables on a project whose table files are absent or hold *)
(* any text, called up to MaxTableRuns times with one configuration.       *)
(***************************************************************************)
NameS == <<"s">>
NameO == <<"o">>
FileSK == <<"s", ".", "k">>
FileSPretty == NameS \o DotPretty

RelPath(comps) == [absolute |-> FALSE, comps |-> comps]
AbsPath(comps) == [absolute |-> TRUE, comps |-> comps]

ProjectRoot == AbsPath(<<<<"r">>>>)

\* Library paths: relative, relative with a leading ".", inside the project
\* root, outside it, and one without a file name.
SymbolLibPaths ==
    {RelPath(<<FileSK>>), RelPath(<<<<".">>, FileSK>>),
     AbsPath(<<<<"r">>, FileSK>>), AbsPath(<<<<"o">>, FileSK>>),
     RelPath(<<<<"d">>, FileSPretty>>), AbsPath(<<<<"r">>, <<"d">>, FileSK>>),
     RelPath(<<<<".", ".">>>>)}

FootprintLibPaths == {RelPath(<<FileSPretty>>), AbsPath(<<<<"o">>, FileSK>>)}

\* The children of an existing table: the version entry, a complete entry
\* for library s with other values, entries for s lacking fields or with
\* the fields in another order, an entry for another library, an atom and
\* an empty list.
TableChildren ==
    {TableVersion,
     List(<<Atom_new(TableWord("lib")), Field("name", NameS),
            Field("type", <<"L">>), Field("uri", <<"u">>),
            Field("options", <<"x">>), Field("descr", <<"y">>)>>),
     List(<<Atom_new(TableWord("lib")), Field("name", NameS)>>),
     List(<<Atom_new(TableWord("lib")), Field("uri", <<"u">>),
            List(<<Atom_new(TableWord("name")), Atom_new(NameS), Atom_new(NameO)>>)>>),
     build_lib_entry(NameO, <<"u">>),
     Atom_new(NameS),
     List(<<>>)}

\* The texts of a table file of this kind: printed trees, in the indent of
\* the table updater or in another one, a text with the other root keyword
\* and one that does not parse.
TableTexts(kind) ==
    {to_string_pretty_with_indent(List(<<Atom_new(root_name(kind))>> \o cs),
                                  TableIndent) :
        cs \in SeqsUpTo(TableChildren, MaxTableChildren)}
    \cup {to_string_pretty(List(<<Atom_new(root_name(kind)),
                                  build_lib_entry(NameS, <<"u">>), TableVersion>>)),
          to_string_pretty(default_table(IF kind = "Symbol" THEN "Footprint"
                                         ELSE "Symbol")),
          <<"(">>}

FpTableFiles ==
    {None,
     Some(to_string_pretty(List(<<Atom_new(root_name("Footprint")),
                                  build_lib_entry(NameS, <<"u">>)>>))),
     Some(to_string_pretty(List(<<Atom_new(root_name("Footprint")), List(<<>>)>>)))}

\* Any symbol table with the default library paths, any footprint table
\* with them, or any library paths with an absent or an existing symbol
\* table.
TablesInit ==
    /\ \/ /\ tables \in [sym : {Some(t) : t \in TableTexts("Symbol")}, fp : {None}]
          /\ tconfig = [project_root |-> ProjectRoot,
                        symbol_lib |-> RelPath(<<FileSK>>),
                        footprint_lib |-> RelPath(<<FileSPretty>>)]
       \/ /\ tables \in [sym : {None}, fp : FpTableFiles]
          /\ tconfig = [project_root |-> ProjectRoot,
                        symbol_lib |-> RelPath(<<FileSK>>),
                        footprint_lib |-> RelPath(<<FileSPretty>>)]
       \/ /\ tables \in [sym : {None, Some(to_string_pretty(
                                     List(<<Atom_new(root_name("Symbol")),
                                            build_lib_entry(NameS, <<"u">>)>>)))},
                         fp : {None}]
          /\ tconfig \in [project_root : {ProjectRoot}, symbol_lib : SymbolLibPaths,
                          footprint_lib : FootprintLibPaths]
    /\ truns = <<>>
    /\ RenderIdle
    /\ LibIdle
    /\ AssocIdle
    /\ ImportIdle
    /\ PropsIdle
    /\ ParseIdle
    /\ LibFileIdle
    /\ CliIdle

\* ensure_project_tables(project_root, config): ensure_table for
\* sym-lib-table, then for fp-lib-table unless the first one failed.  The
\* first file operation on one of the two tables may fail.
EnsureProjectTables ==
    /\ Len(truns) < MaxTableRuns
    /\ \E io \in {"none", "sym", "fp"} :
       \E sym \in {ensure_table(tables.sym, "Symbol", tconfig.project_root,
                                tconfig.symbol_lib, io # "sym")} :
       \E fp \in {ensure_table(tables.fp, "Footprint", tconfig.project_root,
                               tconfig.footprint_lib, io # "fp")} :
          LET after == [sym |-> sym.file,
                        fp |-> IF sym.state = "ok" THEN fp.file ELSE tables.fp]
          IN  /\ tables' = after
              /\ truns' = Append(truns,
                     [before |-> tables, after |-> after, io |-> io,
                      sym |-> [state |-> sym.state, err |-> sym.err],
                      fp |-> IF sym.state = "ok"
                             THEN [state |-> fp.state, err |-> fp.err]
                             ELSE [state |-> "skipped", err |-> ""]])
    /\ UNCHANGED tconfig
    /\ UNCHANGED <<node, text, reparsed, pstep, lib, call, asyms, fps,
                   fpLibFile, assoc, astep, source, args, disk, libBefore,
                   stage, frame, effects, result, psym, pcall, ptext, presult,
                   ltext, lopen, listed, cliArgs, cwdFiles, plan>>

TablesNext == EnsureProjectTables

SpecTables == TablesInit /\ [][TablesNext]_vars

-----------------------------------------------------------------------------
(***************************************************************************)
(* Properties of the table updater (SpecTables).                           *)
(***************************************************************************)
TableKinds == {"Symbol", "Footprint"}
FileOf(kind) == IF kind = "Symbol" THEN "sym" ELSE "fp"
LibPathOf(kind) ==
    IF kind = "Symbol" THEN tconfig.symbol_lib ELSE tconfig.footprint_lib

\* The tree a table file holds; an absent file counts as the skeleton.
TableTree(file, kind) ==
    IF file.some THEN parse_one(file.v).items[1] ELSE default_table(kind)

\* The lib entries of a table in order: the children after the root keyword
\* that are lists starting with the atom lib.
RECURSIVE EntriesFrom(_, _)
EntriesFrom(items, i) ==
    IF i > Len(items) THEN <<>>
    ELSE IF ~items[i].atom /\ items[i].items # <<>>
            /\ items[i].items[1] = Atom_new(TableWord("lib"))
    THEN <<items[i]>> \o EntriesFrom(items, i + 1)
    ELSE EntriesFrom(items, i + 1)

LibEntries(file, kind) == EntriesFrom(TableTree(file, kind).items, 2)

\* The value of the first sub-field (key value ...) of a lib entry, if it
\* is an atom.
FieldValue(entry, key) ==
    LET at == {i \in 2..Len(entry.items) :
                  /\ ~entry.items[i].atom
                  /\ Len(entry.items[i].items) >= 2
                  /\ entry.items[i].items[1].atom
                  /\ entry.items[i].items[1].value = TableWord(key)}
        first == CHOOSE i \in at : \A j \in at : i <= j
    IN  IF at = {} \/ ~entry.items[first].items[2].atom THEN None
        ELSE Some(entry.items[first].items[2].value)

\* The first entry named name among entries, or 0.
EntryNamed(entries, name) ==
    FirstOf({i \in 1..Len(entries) : FieldValue(entries[i], "name") = Some(name)})

\* The table of this kind was updated by call k.
Updated(k, kind) == truns[k][FileOf(kind)].state = "ok"

\* C14: when a call of the table updater succeeded for a table, the next
\* call with the same library path and project root (no file operation
\* failing) succeeds too and leaves the table file with exactly the text the
\* first call wrote, whether the file was absent or held any table before.
C14_TableIdempotence ==
    \A k \in 2..Len(truns), kind \in TableKinds :
        (Updated(k - 1, kind) /\ truns[k].io = "none") =>
            /\ Updated(k, kind)
            /\ truns[k].after[FileOf(kind)] = truns[k - 1].after[FileOf(kind)]

\* Two calls on a symbol table that held an entry for the library with
\* other values: the first call rewrote the file, the second wrote the
\* same text again.
C14_Witness ==
    /\ Len(truns) = 2
    /\ Updated(1, "Symbol") /\ Updated(2, "Symbol")
    /\ truns[1].before.sym.some
    /\ EntryNamed(LibEntries(truns[1].before.sym, "Symbol"), NameS) # 0
    /\ truns[1].after.sym # truns[1].before.sym
    /\ truns[2].after.sym = truns[1].after.sym

\* The entry has the five fields with the values the updater sets.
Normalized(entry, name, uri) ==
    /\ FieldValue(entry, "name") = Some(name)
    /\ FieldValue(entry, "type") = Some(TableWord("KiCad"))
    /\ FieldValue(entry, "uri") = Some(uri)
    /\ FieldValue(entry, "options") = Some(<<>>)
    /\ FieldValue(entry, "descr") = Some(<<>>)

\* C15: after the updater ran on a table for library name N and URI U, if
\* a lib entry named N existed, the first such entry is updated where it
\* stands among the lib entries and none is added; otherwise one entry of
\* exactly the five fields is appended last.  The resulting entry has name N,
\* type KiCad, uri U and empty options and descr, and every other lib entry
\* is unchanged in its position.
C15_EntryUpdatedOrAppended ==
    \A k \in 1..Len(truns), kind \in TableKinds :
        Updated(k, kind) =>
            LET name == lib_name_from_path(kind, LibPathOf(kind)).v
                uri == make_uri(LibPathOf(kind), tconfig.project_root)
                before == LibEntries(truns[k].before[FileOf(kind)], kind)
                after == LibEntries(truns[k].after[FileOf(kind)], kind)
                at == EntryNamed(before, name)
            IN  IF at # 0
                THEN /\ Len(after) = Len(before)
                     /\ Normalized(after[at], name, uri)
                     /\ \A j \in 1..Len(before) : j # at => after[j] = before[j]
                ELSE /\ Len(after) = Len(before) + 1
                     /\ after[Len(after)] = build_lib_entry(name, uri)
                     /\ Normalized(after[Len(after)], name, uri)
                     /\ \A j \in 1..Len(before) : after[j] = before[j]

\* The symbol table held an entry for another library and then an entry
\* for the target library with other values: the second was updated in
\* place, the first is as it was.
C15_Witness ==
    /\ Len(truns) = 1
    /\ Updated(1, "Symbol")
    /\ LET before == LibEntries(truns[1].before.sym, "Symbol")
           after == LibEntries(truns[1].after.sym, "Symbol")
       IN  /\ Len(before) = 2
           /\ EntryNamed(before, NameS) = 2
           /\ Len(after) = 2
           /\ after[1] = before[1]
           /\ after[2] # before[2]
           /\ Normalized(after[2], NameS, make_uri(tconfig.symbol_lib, tconfig.project_root))

Placeholder == TableWord("${KIPRJMOD}/")

\* The path is absolute and the project root's components are a prefix of
\* its components.
Within(path) ==
    /\ path.absolute
    /\ Len(path.comps) >= Len(tconfig.project_root.comps)
    /\ \A i \in 1..Len(tconfig.project_root.comps) :
           path.comps[i] = tconfig.project_root.comps[i]

\* The text of the path below the project root.
BelowRoot(path) ==
    join_components(SubSeq(path.comps, Len(tconfig.project_root.comps) + 1,
                           Len(path.comps)))

\* The text of a relative path without a leading "./".
Undotted(path) ==
    join_components(IF path.comps # <<>> /\ path.comps[1] = <<".">>
                    THEN Tail(path.comps) ELSE path.comps)

\* The uri field of the entry for the library in the table call k wrote.
WrittenUri(k, kind) ==
    LET entries == LibEntries(truns[k].after[FileOf(kind)], kind)
        at == EntryNamed(entries, lib_name_from_path(kind, LibPathOf(kind)).v)
    IN  IF at = 0 THEN None ELSE FieldValue(entries[at], "uri")

\* C16 as stated: the uri written is the placeholder followed by the path
\* relative to the project root when the library path is absolute and within
\* the root, and the path verbatim for every other library path.
C16_PlaceholderIffWithin ==
    \A k \in 1..Len(truns), kind \in TableKinds :
        Updated(k, kind) =>
            WrittenUri(k, kind) =
                IF Within(LibPathOf(kind))
                THEN Some(Placeholder \o BelowRoot(LibPathOf(kind)))
                ELSE Some(to_string_lossy(LibPathOf(kind)))

\* C16, amended: the uri written is the placeholder followed by the path
\* relative to the project root when the library path is absolute and within
\* the root or is relative (a relative path without its leading "./"), and
\* the path verbatim when it is absolute and outside the root.
C16_PlaceholderUnlessOutside ==
    \A k \in 1..Len(truns), kind \in TableKinds :
        Updated(k, kind) =>
            WrittenUri(k, kind) =
                IF Within(LibPathOf(kind))
                THEN Some(Placeholder \o BelowRoot(LibPathOf(kind)))
                ELSE IF ~LibPathOf(kind).absolute
                THEN Some(Placeholder \o Undotted(LibPathOf(kind)))
                ELSE Some(to_string_lossy(LibPathOf(kind)))

\* One call wrote the symbol table for a relative library path starting
\* with "./" and the footprint table for an absolute path outside the root:
\* the first uri has the placeholder, the second is the path itself.
C16_Witness ==
    /\ Len(truns) = 1
    /\ Updated(1, "Symbol") /\ Updated(1, "Footprint")
    /\ tconfig.symbol_lib = RelPath(<<<<".">>, FileSK>>)
    /\ tconfig.footprint_lib.absolute /\ ~Within(tconfig.footprint_lib)
    /\ WrittenUri(1, "Symbol") = Some(Placeholder \o FileSK)
    /\ WrittenUri(1, "Footprint") = Some(to_string_lossy(tconfig.footprint_lib))

\* The name a table entry is to have for the library at path.
ExpectedName(kind, path) ==
    IF kind = "Symbol" THEN file_stem(path).v
    ELSE IF strip_suffix_pretty(file_name(path).v).some
    THEN strip_suffix_pretty(file_name(path).v).v
    ELSE file_name(path).v

\* Call k found no table file and created the table of this kind, rooted at
\* its keyword, with an entry named after the library whose uri is uri.
Created(k, kind, uri) ==
    /\ Updated(k, kind)
    /\ truns[k].after[FileOf(kind)].some
    /\ LET tree == TableTree(truns[k].after[FileOf(kind)], kind)
           entries == LibEntries(truns[k].after[FileOf(kind)], kind)
       IN  /\ ~tree.atom
           /\ tree.items[1] = Atom_new(root_name(kind))
           /\ \E i \in 1..Len(entries) :
                  /\ FieldValue(entries[i], "name")
                         = Some(ExpectedName(kind, LibPathOf(kind)))
                  /\ FieldValue(entries[i], "uri") = Some(uri)

NoTablesRelativePaths(k) ==
    /\ truns[k].before = [sym |-> None, fp |-> None]
    /\ truns[k].io = "none"
    /\ ~tconfig.symbol_lib.absolute
    /\ ~tconfig.footprint_lib.absolute

\* C17 as stated: with no table files and relative library paths,
\* ensure_project_tables creates both tables, each rooted at its keyword and
\* holding an entry named after the library whose uri is the placeholder
\* followed by the relative path.
C17_CreatesBothTables ==
    \A k \in 1..Len(truns) :
        NoTablesRelativePaths(k) =>
            \A kind \in TableKinds :
                Created(k, kind, Placeholder \o to_string_lossy(LibPathOf(kind)))

\* C17, amended: with no table files and relative library paths that end in
\* a file name, ensure_project_tables creates both tables, each rooted at its
\* keyword and holding an entry named after the library whose uri is the
\* placeholder followed by the relative path without a leading "./".
C17_CreatesBothTablesUndotted ==
    \A k \in 1..Len(truns) :
        (/\ NoTablesRelativePaths(k)
         /\ file_name(tconfig.symbol_lib).some
         /\ file_name(tconfig.footprint_lib).some) =>
            \A kind \in TableKinds :
                Created(k, kind, Placeholder \o Undotted(LibPathOf(kind)))

\* Both tables were created for s.k and s.pretty: each has an entry named s.
C17_Witness ==
    /\ Len(truns) = 1
    /\ NoTablesRelativePaths(1)
    /\ tconfig.symbol_lib = RelPath(<<FileSK>>)
    /\ tconfig.footprint_lib = RelPath(<<FileSPretty>>)
    /\ Created(1, "Symbol", Placeholder \o FileSK)
    /\ Created(1, "Footprint", Placeholder \o FileSPretty)
    /\ ExpectedName("Footprint", tconfig.footprint_lib) = NameS

-----------------------------------------------------------------------------
(***************************************************************************)
(* The property operations of Symbol on a parsed symbol.                   *)
(***************************************************************************)
PropertyKeys == {KeyFootprint, KeyValue}
NewValues == {<<"A">>, <<"B">>}

PropsInit ==
    /\ psym \in ParsedSymbols
    /\ pcall = [n |-> 0, op |-> "", key |-> <<>>, value |-> <<>>,
                before |-> psym, found |-> FALSE]
    /\ RenderIdle
    /\ LibIdle
    /\ AssocIdle
    /\ ImportIdle
    /\ TablesIdle
    /\ ParseIdle
    /\ LibFileIdle
    /\ CliIdle

\* Symbol::set_property_value(key, value)
SetPropertyValue(key, value) ==
    /\ pcall.n < MaxPropCalls
    /\ LET set == Symbol_set_property_value(psym, key, value)
       IN  /\ psym' = set.sym
           /\ pcall' = [n |-> pcall.n + 1, op |-> "set_property_value",
                        key |-> key, value |-> value, before |-> psym,
                        found |-> set.found]
    /\ UNCHANGED <<node, text, reparsed, pstep, lib, call, asyms, fps,
                   fpLibFile, assoc, astep, source, args, disk, libBefore,
                   stage, frame, effects, result, tables, tconfig, truns,
                   ptext, presult, ltext, lopen, listed, cliArgs, cwdFiles,
                   plan>>

\* Symbol::set_or_add_property(key, value)
SetOrAddProperty(key, value) ==
    /\ pcall.n < MaxPropCalls
    /\ psym' = Symbol_set_or_add_property(psym, key, value)
    /\ pcall' = [n |-> pcall.n + 1, op |-> "set_or_add_property",
                 key |-> key, value |-> value, before |-> psym,
                 found |-> Symbol_set_property_value(psym, key, value).found]
    /\ UNCHANGED <<node, text, reparsed, pstep, lib, call, asyms, fps,
                   fpLibFile, assoc, astep, source, args, disk, libBefore,
                   stage, frame, effects, result, tables, tconfig, truns,
                   ptext, presult, ltext, lopen, listed, cliArgs, cwdFiles,
                   plan>>

PropsNext ==
    \E key \in PropertyKeys, value \in NewValues :
        \/ SetPropertyValue(key, value)
        \/ SetOrAddProperty(key, value)

SpecProps == PropsInit /\ [][PropsNext]_vars

-----------------------------------------------------------------------------
(***************************************************************************)
(* Properties of the property operations (SpecProps).                      *)
(***************************************************************************)
\* C18: after set_or_add_property(key, value) on any symbol,
\* property_value(key) returns exactly value, whether the property was
\* there with this value, with another one, or was missing; the call returns
\* nothing and cannot fail.
C18_SetOrAddThenGet ==
    pcall.op = "set_or_add_property" =>
        /\ Symbol_property_value(psym, pcall.key) = Some(pcall.value)
        /\ Symbol_name(psym) = Symbol_name(pcall.before)

\* The symbol had no Footprint property but another property entry; the
\* call added one and property_value returns its value.
C18_Witness ==
    /\ pcall.op = "set_or_add_property"
    /\ pcall.key = KeyFootprint
    /\ ~Symbol_property_value(pcall.before, KeyFootprint).some
    /\ Symbol_property_value(pcall.before, KeyValue).some
    /\ Len(psym.sexp.items) = Len(pcall.before.sexp.items) + 1
    /\ Symbol_property_value(psym, KeyFootprint) = Some(pcall.value)

\* The child property_value(key) reads in the symbol, or 0.
ReadAt(sym, key) ==
    FirstOf({k \in 1..Len(sym.sexp.items) :
                property_value(sym.sexp.items[k], key).some})

\* C19: set_property_value(key, value) reports success exactly when
\* property_value(key) returned a value just before the call; on success the
\* entry property_value read has its third element replaced by the value and
\* nothing else in the symbol changes; on not-found the symbol is unchanged.
C19_SameScan ==
    pcall.op = "set_property_value" =>
        LET was == pcall.before.sexp.items
            at == ReadAt(pcall.before, pcall.key)
        IN  /\ pcall.found <=> Symbol_property_value(pcall.before, pcall.key).some
            /\ ~pcall.found => psym = pcall.before
            /\ pcall.found =>
                   /\ at # 0
                   /\ psym.name = pcall.before.name
                   /\ psym.sexp.items =
                          [was EXCEPT ![at] =
                              List([was[at].items EXCEPT ![3] = Atom_new(pcall.value)])]

-----------------------------------------------------------------------------
(***************************************************************************)
(* The parser on arbitrary text: parse_sexps is handed any text over the   *)
(* characters the parser tells apart, balanced or not.                     *)
(***************************************************************************)
ParseChars == {"(", ")", "\"", "\\", ";", "a", "\n"}

ParseInit ==
    /\ ptext \in SeqsUpTo(ParseChars, MaxTextLen)
    /\ presult = [run |-> FALSE, ok |-> FALSE, items |-> <<>>,
                  err |-> [message |-> "", line |-> Some(0),
                           column |-> Some(0)]]
    /\ RenderIdle
    /\ LibIdle
    /\ AssocIdle
    /\ ImportIdle
    /\ TablesIdle
    /\ PropsIdle
    /\ LibFileIdle
    /\ CliIdle

ParseSexps ==
    /\ ~presult.run
    /\ LET r == parse_sexps(ptext)
       IN  presult' = [run |-> TRUE, ok |-> r.ok, items |-> r.items,
                       err |-> r.err]
    /\ UNCHANGED <<node, text, reparsed, pstep, lib, call, asyms, fps,
                   fpLibFile, assoc, astep, source, args, disk, libBefore,
                   stage, frame, effects, result, tables, tconfig, truns,
                   psym, pcall, ptext, ltext, lopen, listed, cliArgs,
                   cwdFiles, plan>>

ParseNext == ParseSexps

SpecParse == ParseInit /\ [][ParseNext]_vars

(***************************************************************************)
(* What is wrong with a text, read off its characters alone: a scan that   *)
(* tracks whether it is in a comment, in a quoted atom or after a          *)
(* backslash, and how many lists are open.  It yields the first defect and *)
(* the index where it shows: a ')' with no list open, or the end of the    *)
(* text inside a quoted atom or inside a list.                             *)
(***************************************************************************)
RECURSIVE Scan(_, _, _, _)
Scan(chars, i, mode, depth) ==
    IF i > Len(chars)
    THEN [defect |-> IF mode = "string" THEN "open string"
                     ELSE IF mode = "escape" THEN "open escape"
                     ELSE IF depth > 0 THEN "open list"
                     ELSE "none",
          at |-> i]
    ELSE IF mode = "comment"
    THEN Scan(chars, i + 1, IF chars[i] = "\n" THEN "code" ELSE "comment", depth)
    ELSE IF mode = "escape" THEN Scan(chars, i + 1, "string", depth)
    ELSE IF mode = "string"
    THEN Scan(chars, i + 1,
              IF chars[i] = "\"" THEN "code"
              ELSE IF chars[i] = "\\" THEN "escape" ELSE "string", depth)
    ELSE IF chars[i] = "(" THEN Scan(chars, i + 1, "code", depth + 1)
    ELSE IF chars[i] = ")"
    THEN IF depth = 0 THEN [defect |-> "stray", at |-> i]
         ELSE Scan(chars, i + 1, "code", depth - 1)
    ELSE IF chars[i] = "\"" THEN Scan(chars, i + 1, "string", depth)
    ELSE IF chars[i] \in {";", "#"} THEN Scan(chars, i + 1, "comment", depth)
    ELSE Scan(chars, i + 1, "code", depth)

Defect == Scan(ptext, 1, "code", 0)

\* The line and the column of index at: one more than the newlines before
\* it, and one more than the characters between the last of them and it.
LineOf(chars, at) == 1 + Cardinality({j \in 1..(at - 1) : chars[j] = "\n"})

ColumnOf(chars, at) ==
    LET nl == {j \in 1..(at - 1) : chars[j] = "\n"}
        last == IF nl = {} THEN 0 ELSE CHOOSE j \in nl : \A k \in nl : k <= j
    IN  at - last

MessageOf(defect) ==
    CASE defect = "stray" -> "unexpected ')'"
      [] defect = "open list" -> "unterminated list"
      [] defect = "open string" -> "unterminated string"
      [] defect = "open escape" -> "unterminated escape"
      [] OTHER -> ""

\* C20: for a text with a ')' where no list is open, a list open at the end
\* of the text, or a quoted atom or an escape sequence open at the end of the
\* text, the parser returns an error that names the defect and carries the
\* line and the column where it shows, and no trees; it returns success only
\* for a text without any of these defects.
C20_PositionedErrors ==
    presult.run =>
        /\ Defect.defect # "none" =>
               /\ ~presult.ok
               /\ presult.items = <<>>
               /\ presult.err.message = MessageOf(Defect.defect)
               /\ presult.err.line = Some(LineOf(ptext, Defect.at))
               /\ presult.err.column = Some(ColumnOf(ptext, Defect.at))
        /\ presult.ok => Defect.defect = "none"

\* A list left open on the second line of the text was refused there.
C20_Witness ==
    /\ presult.run
    /\ ~presult.ok
    /\ presult.err.message = "unterminated list"
    /\ presult.err.line = Some(2)
    /\ presult.err.column = Some(2)

-----------------------------------------------------------------------------
(***************************************************************************)
(* A library read from a text: KicadSymbolLib::parse, then symbols() and   *)
(* add_symbol calls on the library it returned.                            *)
(***************************************************************************)
\* The children after the root keyword of the library texts: besides
\* symbols, children that only resemble one.
LibraryFileChildren ==
    {<<>>,
     <<VersionEntry>>,
     <<VersionEntry, SymbolSexp(NameA, <<>>), SymbolSexp(NameB, <<>>)>>,
     <<SymbolSexp(NameB, <<>>), Atom_new(KwSymbol), SymbolSexp(NameA, <<>>)>>,
     <<List(<<Atom_new(KwSymbol)>>), SymbolSexp(NameA, <<>>)>>,
     <<SymbolEntry(List(<<>>), <<>>), SymbolSexp(NameB, <<>>)>>,
     <<SymbolEntry(Atom_new_quoted(NameA), <<SymbolSexp(NameB, <<>>)>>)>>,
     <<List(<<SymbolSexp(NameC, <<>>)>>), VersionEntry>>,
     <<SymbolSexp(NameA, <<>>), SymbolSexp(NameA, <<"o", "l", "d">>)>>,
     <<SymbolEntry(Atom_new(NameA), <<>>), List(<<>>)>>,
     <<List(<<Atom_new_quoted(KwSymbol), Atom_new(NameC)>>)>>}

\* Texts that are not one list starting with the root keyword: no form, a
\* text that does not parse, two forms, an atom, the empty list, another
\* keyword, and a list as first element.
MalformedLibraryTexts ==
    {<<>>,
     <<"(">>,
     to_string_pretty(List(<<Atom_new(KwRoot)>>))
         \o to_string_pretty(List(<<Atom_new(KwRoot), VersionEntry>>)),
     to_string_pretty(Atom_new(KwRoot)),
     to_string_pretty(List(<<>>)),
     to_string_pretty(VersionEntry),
     to_string_pretty(List(<<List(<<Atom_new(KwRoot)>>)>>))}

LibraryFileTexts ==
    {to_string_pretty(List(<<Atom_new(KwRoot)>> \o cs)) : cs \in LibraryFileChildren}
    \cup {to_string_pretty(List(<<Atom_new_quoted(KwRoot), VersionEntry>>))}
    \cup MalformedLibraryTexts

LibFileInit ==
    /\ ltext \in LibraryFileTexts
    /\ lopen = "unparsed"
    /\ listed = NoListing
    /\ LibIdle
    /\ RenderIdle
    /\ AssocIdle
    /\ ImportIdle
    /\ TablesIdle
    /\ PropsIdle
    /\ ParseIdle
    /\ CliIdle

\* KicadSymbolLib::parse(input).
ParseLibrary ==
    /\ lopen = "unparsed"
    /\ \E parsed \in {KicadSymbolLib_parse(ltext)} :
          /\ lopen' = IF parsed.ok THEN "open" ELSE "failed"
          /\ lib' = parsed.root
    /\ UNCHANGED <<call, ltext, listed>>
    /\ UNCHANGED <<node, text, reparsed, pstep, asyms, fps, fpLibFile, assoc,
                   astep, source, args, disk, libBefore, stage, frame,
                   effects, result, tables, tconfig, truns, psym, pcall,
                   ptext, presult, cliArgs, cwdFiles, plan>>

\* KicadSymbolLib::symbols().
ListSymbols ==
    /\ lopen = "open"
    /\ ~listed.some
    /\ \E found \in {KicadSymbolLib_symbols(lib)} :
          listed' = [some |-> TRUE, ok |-> found.ok, syms |-> found.syms]
    /\ UNCHANGED <<lib, call, ltext, lopen>>
    /\ UNCHANGED <<node, text, reparsed, pstep, asyms, fps, fpLibFile, assoc,
                   astep, source, args, disk, libBefore, stage, frame,
                   effects, result, tables, tconfig, truns, psym, pcall,
                   ptext, presult, cliArgs, cwdFiles, plan>>

LibFileNext ==
    \/ ParseLibrary
    \/ ListSymbols
    \/ \E symbol \in IncomingSymbols, policy \in AddPolicy : AddSymbol(symbol, policy)

SpecLibFile == LibFileInit /\ [][LibFileNext]_vars

(***************************************************************************)
(* Properties of a library read from a text (SpecLibFile).                 *)
(***************************************************************************)
\* A list (symbol <name-atom> ...).
IsSymbolShape(x) ==
    /\ ~x.atom
    /\ Len(x.items) >= 2
    /\ x.items[1].atom /\ x.items[1].value = KwSymbol
    /\ x.items[2].atom

\* C21: symbols() succeeds and returns, in their order, exactly the children
\* of the root after the root keyword that are lists (symbol <name-atom> ...),
\* each with the value of that atom as its name; children of any other shape
\* are left out, and so is a symbol inside another child.
C21_SymbolsAreRootChildren ==
    listed.some =>
        LET shaped == SelectSeq(Tail(lib.items), IsSymbolShape)
        IN  /\ listed.ok
            /\ Len(listed.syms) = Len(shaped)
            /\ \A i \in 1..Len(shaped) :
                   /\ listed.syms[i].sexp = shaped[i]
                   /\ listed.syms[i].name = shaped[i].items[2].value

\* symbols() returned one symbol of a library with three children: it left
\* out a child that is not a symbol and did not return the nested symbol.
C21_Witness ==
    /\ listed.some
    /\ Len(listed.syms) = 1
    /\ Len(lib.items) = 4
    /\ \E i \in 2..4 :
          /\ ~lib.items[i].atom
          /\ \E j \in 1..Len(lib.items[i].items) :
                IsSymbolShape(lib.items[i].items[j])

\* The top-level forms of the library text.
Forms == parse_all(ltext)

\* C22: parse succeeds only on a text with exactly one top-level form that is
\* a non-empty list whose first element is the atom kicad_symbol_lib, and the
\* library holds that form; after any add_symbol calls, successful or
\* failing, the root is still a non-empty list whose first element is the
\* same atom.
C22_RootInvariant ==
    lopen = "open" =>
        /\ Forms.ok
        /\ Len(Forms.items) = 1
        /\ ~Forms.items[1].atom
        /\ Forms.items[1].items # <<>>
        /\ Forms.items[1].items[1].atom
        /\ Forms.items[1].items[1].value = KwRoot
        /\ call.n = 0 => lib = Forms.items[1]
        /\ ~lib.atom
        /\ lib.items # <<>>
        /\ lib.items[1] = Forms.items[1].items[1]

\* A library read from a text took two add_symbol calls, one that changed it
\* and then one that failed.
C22_Witness ==
    /\ lopen = "open"
    /\ call.n = 2
    /\ ~call.res.ok
    /\ call.before # Forms.items[1]

\* import_source returned an error from copy_footprints or copy_steps.
FailedInCopy ==
    /\ stage = "failed"
    /\ result.at \in {"written", "footprints_copied"}

\* C23: when the import fails in copy_footprints or copy_steps, it returns
\* the error and no report, the library file is the one written from the
\* merged library, and every footprint and 3D-model file copied before the
\* failure is in its destination directory.
C23_NoRollback ==
    FailedInCopy =>
        /\ result.state = "err"
        /\ result.report = Running.report
        /\ Count(effects, {"write"}) = 1
        /\ disk.lib = Some(KicadSymbolLib_to_string_pretty(frame.target_lib))
        /\ \A i \in 1..Count(effects, {"copy_footprint"}) :
               source.footprint_files[i] \in disk.footprints
        /\ \A i \in 1..Count(effects, {"copy_step"}) :
               source.step_files[i] \in disk.steps

\* copy_steps failed after the library file was changed and two footprint
\* files were copied.
C23_Witness ==
    /\ FailedInCopy
    /\ result.at = "footprints_copied"
    /\ disk.lib # libBefore
    /\ Count(effects, {"copy_footprint"}) = 2

-----------------------------------------------------------------------------
(***************************************************************************)
(* The command-line run: resolve_import, then import_source with           *)
(* AddPolicy::ReplaceExisting, then ensure_project_tables; an error of one *)
(* of them ends the run.                                                   *)
(***************************************************************************)
ConfigFields == {"symbol_lib", "footprint_lib", "step_dir"}

\* The paths given on the command line and in the config file.
CliPaths ==
    [symbol_lib |-> RelPath(<<<<"c", ".", "k">>>>),
     footprint_lib |-> RelPath(<<<<"c">> \o DotPretty>>),
     step_dir |-> RelPath(<<<<"c">>>>)]

ConfigPaths ==
    [symbol_lib |-> RelPath(<<<<"f", ".", "k">>>>),
     footprint_lib |-> RelPath(<<<<"f">> \o DotPretty>>),
     step_dir |-> RelPath(<<<<"f">>>>)]

\* Every choice of command-line paths, and every file .kci_config: none, one
\* that does not load, and the ones with any of the three paths.
ArgsPool == [ConfigFields -> BOOLEAN]
ArgsOf(given) ==
    [f \in ConfigFields |-> IF given[f] THEN SomePath(CliPaths[f]) ELSE NoPath]
ConfigFileOf(given) ==
    [present |-> TRUE, valid |-> TRUE,
     symbol_lib |-> IF given.symbol_lib THEN SomePath(ConfigPaths.symbol_lib) ELSE NoPath,
     footprint_lib |-> IF given.footprint_lib THEN SomePath(ConfigPaths.footprint_lib)
                       ELSE NoPath,
     step_dir |-> IF given.step_dir THEN SomePath(ConfigPaths.step_dir) ELSE NoPath]
ConfigFiles ==
    {NoConfigFile, BadConfigFile} \cup {ConfigFileOf(g) : g \in ArgsPool}

\* The import sources of a run: one symbol file, all or none of the
\* footprint files, and the 3D-model files.
CliSources ==
    {[valid |-> TRUE, symbol_files |-> <<t>>, footprint_files |-> FootprintFiles(nf),
      step_files |-> StepFiles(MaxStepFiles)] :
        t \in SymbolFileTexts, nf \in {0, MaxFootprints}}

\* Either any command line and config file with a source that is no
\* directory or archive, or no command-line paths and a source to import.
CliInit ==
    /\ \/ /\ cliArgs \in {ArgsOf(g) : g \in ArgsPool}
          /\ cwdFiles \in [config : ConfigFiles, project : {None, Some(<<"p">>)}]
          /\ source = [valid |-> FALSE, symbol_files |-> <<>>,
                       footprint_files |-> <<>>, step_files |-> <<>>]
          /\ disk = [lib |-> None, footprints |-> {}, steps |-> {}]
          /\ tables = [sym |-> None, fp |-> None]
       \/ /\ cliArgs = ArgsOf([f \in ConfigFields |-> FALSE])
          /\ cwdFiles \in [config : {NoConfigFile,
                                     ConfigFileOf([f \in ConfigFields |-> TRUE])},
                           project : {None}]
          /\ source \in CliSources
          /\ disk \in [lib : TargetLibFiles, footprints : {{}}, steps : {{}}]
          /\ tables \in [sym : {None, Some(<<"(">>),
                                Some(to_string_pretty(
                                    List(<<Atom_new(root_name("Symbol")),
                                           build_lib_entry(NameS, <<"u">>)>>)))},
                         fp : {None}]
    /\ plan = NoPlan
    /\ args = [policy |-> "", footprint_lib |-> <<>>]
    /\ libBefore = disk.lib
    /\ stage = "idle"
    /\ frame = NoFrame
    /\ effects = <<>>
    /\ result = Running
    /\ tconfig = [project_root |-> [absolute |-> TRUE, comps |-> <<>>],
                  symbol_lib |-> [absolute |-> FALSE, comps |-> <<>>],
                  footprint_lib |-> [absolute |-> FALSE, comps |-> <<>>]]
    /\ truns = <<>>
    /\ RenderIdle
    /\ LibIdle
    /\ AssocIdle
    /\ PropsIdle
    /\ ParseIdle
    /\ LibFileIdle

\* run up to its call of import_source: resolve_import(args, cwd)?.  The read
\* of an existing config file or the write of a new one may fail; a failed
\* write leaves no file, a file that does not load, or an empty one.
ResolveImport ==
    /\ plan.state = "none"
    /\ \E io \in {"ok", "read", "write"} :
       \E config \in {resolved_config(cliArgs, cwdFiles.config, cwdFiles.project)} :
          IF cwdFiles.config.present /\ (io = "read" \/ ~cwdFiles.config.valid)
          THEN /\ plan' = [NoPlan EXCEPT !.state = "err",
                                         !.err = IF io = "read" THEN "Io" ELSE "Parse"]
               /\ UNCHANGED <<cwdFiles, stage, args, tconfig>>
          ELSE IF ~cwdFiles.config.present /\ io = "write"
          THEN /\ plan' = [NoPlan EXCEPT !.state = "err", !.err = "Io"]
               /\ \E left \in {NoConfigFile, BadConfigFile,
                               ConfigFileOf([f \in ConfigFields |-> FALSE])} :
                      cwdFiles' = [cwdFiles EXCEPT !.config = left]
               /\ UNCHANGED <<stage, args, tconfig>>
          ELSE /\ plan' = [state |-> "ok", err |-> "", config |-> config,
                           created_config |-> ~cwdFiles.config.present]
               /\ cwdFiles' =
                      IF cwdFiles.config.present THEN cwdFiles
                      ELSE [cwdFiles EXCEPT
                               !.config = ConfigFile_from_import_config(config)]
               /\ stage' = "start"
               /\ args' = [policy |-> ReplaceExisting,
                           footprint_lib |-> file_name(config.footprint_lib).v]
               /\ tconfig' = [project_root |-> ProjectRoot,
                              symbol_lib |-> config.symbol_lib,
                              footprint_lib |-> config.footprint_lib]
    /\ UNCHANGED <<cliArgs, source, disk, libBefore, frame, effects, result,
                   tables, truns>>
    /\ UNCHANGED <<node, text, reparsed, pstep, lib, call, asyms, fps,
                   fpLibFile, assoc, astep, psym, pcall, ptext, presult,
                   ltext, lopen, listed>>

\* run that updates the tables whether import_source returned Ok or Err.
CliTables_after_failure ==
    /\ plan.state = "ok"
    /\ stage \in {"done", "failed"}
    /\ truns = <<>>
    /\ EnsureProjectTables

\* run after import_source returned Ok: ensure_project_tables(&cwd, config)?.
CliTables ==
    /\ plan.state = "ok"
    /\ stage = "done"
    /\ truns = <<>>
    /\ EnsureProjectTables

CliNext ==
    \/ ResolveImport
    \/ ImportNext
    \/ CliTables

SpecCli == CliInit /\ [][CliNext]_vars

(***************************************************************************)
(* Properties of the command-line run (SpecCli).                           *)
(***************************************************************************)
\* The path of a field by precedence: the command line, else the config file
\* that was there before the call, else the default.
Chosen(field) ==
    IF cliArgs[field].some THEN cliArgs[field].v
    ELSE IF cwdFiles.config.present /\ cwdFiles.config[field].some
    THEN cwdFiles.config[field].v
    ELSE default_config(cwdFiles.project)[field]

\* C24: resolve_import takes each of the three paths from the command line,
\* else from the existing .kci_config, else from the defaults, one path not
\* depending on where another came from; when it returns a plan, it has
\* written the config file, holding the three paths, and created_config is
\* true if and only if there was no .kci_config before the call; a config
\* file that was there is left as it was whatever the outcome.
C24_ResolveImport ==
    [][plan.state = "none" /\ plan'.state # "none" =>
          /\ plan'.state = "ok" =>
                /\ \A f \in ConfigFields : plan'.config[f] = Chosen(f)
                /\ plan'.created_config <=> ~cwdFiles.config.present
                /\ cwdFiles'.config # cwdFiles.config <=> ~cwdFiles.config.present
                /\ ~cwdFiles.config.present =>
                       /\ cwdFiles'.config.present /\ cwdFiles'.config.valid
                       /\ \A f \in ConfigFields :
                              cwdFiles'.config[f] = SomePath(Chosen(f))
          /\ cwdFiles.config.present => cwdFiles'.config = cwdFiles.config
      ]_vars

\* A plan made with a config file that gives one path the command line does
\* not give and lacks one the command line lacks too, while the command
\* line gives the third: all three sources were used and no file was created.
C24_Witness ==
    /\ plan.state = "ok"
    /\ ~plan.created_config
    /\ cliArgs.symbol_lib.some /\ cwdFiles.config.symbol_lib.some
    /\ plan.config.symbol_lib = cliArgs.symbol_lib.v
    /\ ~cliArgs.footprint_lib.some
    /\ plan.config.footprint_lib = cwdFiles.config.footprint_lib.v
    /\ ~cliArgs.step_dir.some /\ ~cwdFiles.config.step_dir.some
    /\ plan.config.step_dir = default_config(cwdFiles.project).step_dir

(***************************************************************************)
(* The entry set_or_add_property adds (SpecProps).                         *)
(***************************************************************************)
\* The indices of the children that are lists starting with the atom
\* property.
PropertyLists(items) ==
    {k \in 1..Len(items) :
        /\ ~items[k].atom
        /\ items[k].items # <<>>
        /\ items[k].items[1].atom
        /\ items[k].items[1].value = KwProperty}

IsAtomOf(x, value) == x.atom /\ x.value = value

\* C25: when set_or_add_property finds no entry to set, it appends one child
\* and leaves the others as they were.  With a property list among the
\* children the new entry is a copy of one of them with key as second and
\* value as third element and the elements after the third kept; with none
\* it is the three-element list (property key value).
C25_AddedEntry ==
    pcall.op = "set_or_add_property" /\ ~pcall.found =>
        LET old == pcall.before.sexp.items
            new == psym.sexp.items
            added == new[Len(new)]
        IN  /\ Len(new) = Len(old) + 1
            /\ SubSeq(new, 1, Len(old)) = old
            /\ ~added.atom
            /\ Len(added.items) >= 3
            /\ IsAtomOf(added.items[2], pcall.key)
            /\ IsAtomOf(added.items[3], pcall.value)
            /\ IF PropertyLists(old) = {}
               THEN /\ Len(added.items) = 3
                    /\ IsAtomOf(added.items[1], KwProperty)
               ELSE \E k \in PropertyLists(old) :
                       /\ added.items[1] = old[k].items[1]
                       /\ Len(added.items) = IF Len(old[k].items) > 3
                                             THEN Len(old[k].items) ELSE 3
                       /\ \A j \in 4..Len(old[k].items) :
                              added.items[j] = old[k].items[j]

\* A Footprint entry was added to a symbol whose only property has a fourth
\* element: the new entry has that element too.
C25_Witness ==
    /\ pcall.op = "set_or_add_property" /\ ~pcall.found
    /\ pcall.key = KeyFootprint
    /\ Len(psym.sexp.items) = 4
    /\ Len(psym.sexp.items[3].items) = 4
    /\ Len(psym.sexp.items[4].items) = 4
    /\ psym.sexp.items[4].items[4] = psym.sexp.items[3].items[4]

(***************************************************************************)
(* Uniqueness of symbol names under add_symbol (SpecLib).                  *)
(***************************************************************************)
\* The children of the root after the root keyword that are symbols.
TopSymbols(root) ==
    {i \in 2..Len(root.items) : symbol_name(root.items[i]).some}

DistinctNames(root) ==
    \A i, j \in TopSymbols(root) :
        i # j => symbol_name(root.items[i]) # symbol_name(root.items[j])

\* C26: an add_symbol call on a library whose symbols have pairwise distinct
\* names leaves them pairwise distinct, whatever the policy and the result,
\* and a call that returns Ok leaves a symbol of the incoming name in the
\* library.
C26_NamesStayDistinct ==
    call.n > 0 =>
        /\ DistinctNames(call.before) => DistinctNames(lib)
        /\ call.res.ok => Matches(lib, Symbol_name(call.symbol)) # {}

\* A second call that appended a new name to a library of distinct names in
\* which another incoming symbol meets a conflict under ErrorOnConflict.
C26_Witness ==
    /\ call.n = 2
    /\ call.res.ok
    /\ TopSymbols(call.before) # {}
    /\ DistinctNames(call.before)
    /\ Cardinality(TopSymbols(lib)) = Cardinality(TopSymbols(call.before)) + 1
    /\ \E symbol \in IncomingSymbols :
           ~KicadSymbolLib_add_symbol(call.before, symbol, ErrorOnConflict).res.ok

(***************************************************************************)
(* Footprint references after a successful import (SpecImport).            *)
(***************************************************************************)
\* The names of the footprint files discovered in the source.
DiscoveredNames ==
    {source.footprint_files[i] : i \in 1..Len(source.footprint_files)}

\* C27: when import_source has returned Ok, the Footprint property of every
\* symbol it passed to add_symbol reads <dest-lib>:<n>, where <dest-lib> is
\* the name derived from the destination footprint library and <n> names a
\* discovered footprint file that is now in the destination directory.
C27_ReferenceIntegrity ==
    result.state = "ok" =>
        \A i \in 1..Len(frame.symbols) :
            \E n \in DiscoveredNames \cap disk.footprints :
                Symbol_property_value(frame.symbols[i], KeyFootprint)
                    = Some(footprint_lib_name(args.footprint_lib).v \o <<":">> \o n)

\* A successful import of two symbols, one that declared its footprint and
\* one that had no Footprint property.
C27_Witness ==
    /\ result.state = "ok"
    /\ Len(frame.symbols) = 2
    /\ frame.next = 3
    /\ Symbol_name(frame.symbols[1]) # Symbol_name(frame.symbols[2])
    /\ disk.footprints # {}

(***************************************************************************)
(* Completion of the table updater (SpecTables).                           *)
(***************************************************************************)
\* The updater returned a Result for this table: Ok or a TableError.
Returned(outcome) == outcome.state \in {"ok", "err"}

\* C28: on an existing table file that parses as one list starting with the
\* root keyword of its kind, whatever its other children, the updater
\* returns Ok or a TableError.
C28_RunsToCompletion ==
    \A i \in 1..Len(truns) :
        /\ truns[i].before.sym.some
           /\ parse_table(truns[i].before.sym.v, "Symbol").ok
              => Returned(truns[i].sym)
        /\ truns[i].before.fp.some
           /\ parse_table(truns[i].before.fp.v, "Footprint").ok
           /\ truns[i].sym.state = "ok"
              => Returned(truns[i].fp)

(***************************************************************************)
(* The order of the side effects of the command-line run (SpecCli).        *)
(***************************************************************************)
\* C29: the run writes .kci_config first and only when there was none, then
\* import_source writes the library and copies files, then the symbol table
\* is updated, then the footprint table.  The tables are not touched unless
\* import_source returned Ok, the footprint table is not written unless the
\* symbol table update returned Ok, and a config file created by the run
\* stays as written whatever fails later.
C29_SideEffectOrder ==
    [][/\ cwdFiles'.config # cwdFiles.config =>
              /\ plan.state = "none" /\ ~cwdFiles.config.present
              /\ stage = "idle" /\ truns = <<>>
              /\ disk' = disk /\ tables' = tables
       /\ disk' # disk =>
              /\ plan.state = "ok" /\ truns = <<>>
              /\ tables' = tables
       /\ truns' # truns \/ tables' # tables =>
              /\ plan.state = "ok" /\ result.state = "ok"
              /\ disk' = disk
       /\ tables'.fp # tables.fp =>
              /\ truns'[Len(truns')].sym.state = "ok"
              /\ tables'.sym.some
       /\ plan.state = "ok" /\ plan.created_config =>
              /\ cwdFiles.config.present
              /\ cwdFiles'.config = cwdFiles.config
      ]_vars

\* A run that created .kci_config, imported, and then failed on the symbol
\* table: the config file and the imported library are there and there is
\* no footprint table.
C29_Witness ==
    /\ plan.state = "ok" /\ plan.created_config
    /\ cwdFiles.config.present
    /\ result.state = "ok"
    /\ disk.lib.some
    /\ Len(truns) = 1
    /\ truns[1].sym.state = "err"
    /\ truns[1].fp.state = "skipped"
    /\ ~tables.fp.some
=============================================================================
